---- MODULE Spec2Model ----
(***************************************************************************)
(* The asynchronous reasoning-generation subsystem of the X-Ray library:   *)
(* the database-backed ReasoningQueue (src/src/xRay/reasoningQueue.ts),    *)
(* its configuration (src/src/xRay/config.ts) and the Prisma-backed        *)
(* storage functions it calls (lib/storage.ts, src/unnamed/part_005); the  *)
(* two generateStepReasoning functions (src/RuleBasedReasoning.ts with     *)
(* grokReasoner.ts, and src/src/xRay/llmReasoning.ts, which the queue      *)
(* imports); and the XRay tracker (src/src/xRay/xray.ts).                  *)
(*                                                                         *)
(* Every await of the TypeScript code is an interleaving point: an action  *)
(* of this module is the code between two awaits of one async call.        *)
(* Strings that the code inspects by substring (error messages, ids) are   *)
(* sequences of tokens; String.includes(p) is "some token equals p".       *)
(***************************************************************************)
EXTENDS Integers, Sequences, FiniteSets, Bags, TLC

\* ------------------------------------------------------------------ bounds

\* Number of job ids randomUUID() hands out in one behaviour.
MaxJobs == 3

\* Number of jobs created in a behaviour of Spec and of SpecRestart.
CoreJobs == 2

\* Number of times the process stops and is started again.
MaxCrashes == 1

\* saveExecution calls in one behaviour.
MaxSaves == 2

\* Calls made on one tracker in one behaviour.
MaxCalls == 5

\* XRAY_REASONING_CONCURRENCY as configured for the model run.
Concurrency == 2

\* XRAY_REASONING_MAX_RETRIES as configured for the model run.
MaxRetries == 3

\* The largest attempt number a job passed to the retry handler alone holds,
\* and one less than the largest XRAY_REASONING_MAX_RETRIES it is run under.
MaxAttempt == 6

\* The largest value Date.now() returns to the retry handler run alone.
MaxClock == 3

\* Callers of the file-backed storage, and the calls they make in one behaviour.
MaxCallers == 3
MaxFileCalls == 4

\* ------------------------------------------------------------------ config

\* config.ts: retryDelays: [1000, 2000, 4000, 8000]
retryDelays == <<1000, 2000, 4000, 8000>>

\* handleJobError: this.config.retryDelays[job.attempt - 1] || 8000
RetryDelayFallback == 8000

JobIds == 1..MaxJobs

\* ------------------------------------------------------------------ data

\* Caller-supplied executionId values. "e1" is stored; "e2" and "e429" are
\* not. "e429" is an id whose text contains the digits 429 (ids are built
\* from Date.now() and randomUUID(), see verifyReasoning.ts line 318).
ExecIds == {"e1", "e2", "e429"}

\* Step names a caller may pass. "s1" and "s2" are steps of "e1"; "s3" is not.
StepNames == {"s1", "s2", "s3"}

\* Execution.id, the internal primary key Prisma generates for a stored
\* Execution (migration.sql line 3, line 11); ReasoningJob.executionId is a
\* foreign key to it (migration.sql line 75).
DbIdOf == [e \in {"e1", "e2"} |-> IF e = "e1" THEN "cuid1" ELSE "cuid2"]

\* The text of an id, as tokens.
IdText == [x \in ExecIds \cup {"cuid1"} \cup StepNames |->
             CASE x = "e1" -> <<"e", "1">>
               [] x = "e2" -> <<"e", "2">>
               [] x = "e429" -> <<"e", "429">>
               [] x = "cuid1" -> <<"cuid", "1">>
               [] x = "s1" -> <<"s", "1">>
               [] x = "s2" -> <<"s", "2">>
               [] x = "s3" -> <<"s", "3">>]

\* step.ts: the fields of a Step the queue reads. reasoning <<>> is unset.
Step(n, r) == [name |-> n, reasoning |-> r]

\* reasoningQueue.ts: interface ReasoningJob. status "absent" is a missing
\* map entry (jobs.get(id) === undefined); error <<>> and nextRetryAt 0 are
\* unset optional fields. nextRetryAt holds the delay added to Date.now().
NoJob == [executionId |-> "", stepName |-> "", attempt |-> 0,
          status |-> "absent", error |-> <<>>, nextRetryAt |-> 0]

\* migration.sql: table ReasoningJob. status "absent" is a missing row.
NoRow == [executionId |-> "", stepName |-> "", status |-> "absent",
          attempts |-> 0, reasoning |-> <<>>, error |-> <<>>]

\* A processJob call in flight: the job id it was started for, the await it
\* is suspended at, the job object it holds (the one in the jobs map while
\* att, its own copy once the map entry has been replaced), its locals, and
\* the error and attempts handed to the pending update of a failed job's row.
NoRun == [jid |-> 0, pc |-> "free", att |-> FALSE, own |-> NoJob,
          step |-> Step("", <<>>), reasoning |-> <<>>,
          error |-> <<>>, attempts |-> 0]

\* An enqueue call in flight, by the job id it created.
NoCall == [pc |-> "none", executionId |-> "", stepName |-> "", dbId |-> ""]

\* The enqueueExecution / processExecution call in flight: loaded is the
\* step list of the execution it got from getExecutionById, call counts the
\* caller's calls.
NoBatch == [pc |-> "idle", kind |-> "", executionId |-> "", todo |-> <<>>,
            jobIds |-> <<>>, cur |-> 0, allUnset |-> FALSE, loaded |-> <<>>,
            call |-> 0]

\* The saveExecution call in flight: its argument, whether findUnique found
\* the execution, and n, the number of calls the callers have made.
NoSave == [pc |-> "none", executionId |-> "", steps |-> <<>>,
           existing |-> FALSE, n |-> 0]

\* No call of handleJobError has been made on a job of its own.
NoRetry == [pc |-> "none", attempt |-> 0, maxRetries |-> 0, now |-> 0,
            job |-> NoJob, delay |-> 0]

\* The callers of the file-backed storage.
Callers == 1..MaxCallers

\* No call of the file-backed storage is in flight for a caller.
NoFileCall == [op |-> "", executionId |-> "", steps |-> <<>>, stepName |-> "",
               reasoning |-> <<>>, threw |-> FALSE]

\* executions.json does not exist: loadExecutions returns [].
NoData == [e \in {} |-> <<>>]

\* The file-backed storage of a process that has made no call. isWriting and
\* writeQueue are the module's lock; pc is where each caller's call stands
\* ("waiting": its promise is in writeQueue; "granted": its promise is
\* resolved; "loaded": it has read the file; "finally": it is about to
\* release); existing is what each caller read; data is the file; arrived and
\* served list the callers in the order they were queued and were handed the
\* lock from the queue.
NoFile == [isWriting |-> FALSE, writeQueue |-> <<>>,
           pc |-> [c \in Callers |-> "idle"],
           call |-> [c \in Callers |-> NoFileCall],
           existing |-> [c \in Callers |-> NoData],
           data |-> NoData, n |-> 0, arrived |-> <<>>, served |-> <<>>]

\* ------------------------------------------------------------------ step values

\* A JavaScript value as the explanation chain meets it: undefined, null, a
\* number (n), a string (s), an array of strings (e), a plain object (e its
\* keys in insertion order, s its title property, "" when it has none), or a
\* text built by a template or a join (e its tokens).
Val(t, n, s, e) == [t |-> t, n |-> n, s |-> s, e |-> e]
Undef == Val("undefined", 0, "", <<>>)
Null == Val("null", 0, "", <<>>)
Num(n) == Val("number", n, "", <<>>)
Str(s) == Val("string", 0, s, <<>>)
Arr(e) == Val("array", 0, "", e)
Obj(keys, title) == Val("object", 0, title, keys)
Txt(tokens) == Val("text", 0, "", tokens)

\* step.input / step.output: an object given by its properties in insertion
\* order, or undefined.
Object(pairs) ==
  [def |-> TRUE,
   keys |-> [i \in 1..Len(pairs) |-> pairs[i][1]],
   f |-> [k \in {pairs[i][1] : i \in 1..Len(pairs)} |->
            pairs[CHOOSE i \in 1..Len(pairs) : pairs[i][1] = k][2]]]
NoObject == [def |-> FALSE, keys |-> <<>>, f |-> <<>>]

\* o.k, and o?.k for an o that may be undefined.
Get(o, k) == IF o.def /\ k \in DOMAIN o.f THEN o.f[k] ELSE Undef

\* A Step as the chain reads it (step.ts).
ChainStep(name, input, output, error, durationMs) ==
  [name |-> name, input |-> input, output |-> output, error |-> error,
   durationMs |-> durationMs]

\* The step names callers give the tracker.
TNames == {"a", "b"}

\* The inputs callers give startStep.
TInputs == {"i1", "i2"}

\* A step in execution.steps: output, error and reasoning are "" when not
\* set, the times are 0 for a step recorded by logStep.
TStep(name, input, output, error, startedAt, endedAt) ==
  [name |-> name, input |-> input, output |-> output, error |-> error,
   startedAt |-> startedAt, endedAt |-> endedAt,
   durationMs |-> endedAt - startedAt, reasoning |-> ""]

\* What a holder of the Execution object reads from it.
Snapshot(steps, endedAt, finalOutcome) ==
  [steps |-> steps, endedAt |-> endedAt, finalOutcome |-> finalOutcome]

\* An XRay tracker after its constructor: the Execution's steps, endedAt
\* (0: not set) and finalOutcome; activeSteps as name -> startedAt of the
\* active step (0: no entry) and name -> its input; pendingReasoningSteps;
\* the step names handed to queue.enqueue by enqueueReasoning; n, the number
\* of calls made, which is also the clock; the last call and whether it
\* found an active step; whether a call raised; whether end() has returned,
\* what the Execution held and which names were active when it first did;
\* dropped: name -> the input of the record the latest startStep of the name
\* replaced ("": it replaced none).
NoTracker ==
  [steps |-> <<>>, endedAt |-> 0, finalOutcome |-> "",
   active |-> [k \in TNames |-> 0], activeInput |-> [k \in TNames |-> ""],
   pending |-> <<>>, enqueued |-> <<>>, atEnd |-> {}, n |-> 0,
   dropped |-> [k \in TNames |-> ""],
   last |-> [op |-> "", name |-> "", found |-> FALSE, input |-> ""],
   raised |-> FALSE, ended |-> FALSE, seen |-> Snapshot(<<>>, 0, "")]

\* One call of generateStepReasoning: impl is the function called, calls the
\* number of grokExplainStep calls made, raised whether the call rejected.
NoChain == [pc |-> "none", impl |-> "", step |-> ChainStep("", NoObject, NoObject, Undef, Undef),
            text |-> <<>>, calls |-> 0, raised |-> FALSE]

\* ------------------------------------------------------------------ errors

\* An Error object: message and code.
Err(m, c) == [message |-> m, code |-> c]

\* Errors the database driver raises: a transient one and a permanent one.
TransientErr == Err(<<"connect ", "ETIMEDOUT", " 10.0.0.1:5432">>, "ETIMEDOUT")
PermanentErr == Err(<<"Invalid prisma invocation: ", "Record to update not found.">>, "P2025")
StorageErrs == {TransientErr, PermanentErr}

\* new Error("Execution <id> not found")
ExecutionNotFound(id) ==
  Err(<<"Execution ">> \o IdText[id] \o <<" not found">>, "")

\* new Error("Step <stepName> not found in execution <id>")
StepNotFound(s, id) ==
  Err(<<"Step ">> \o IdText[s] \o <<" not found in execution ">> \o IdText[id], "")

\* String.prototype.includes over tokens.
Includes(m, p) == \E i \in 1..Len(m) : m[i] = p

retryablePatterns ==
  {"ECONNRESET", "ETIMEDOUT", "ENOTFOUND", "rate_limit_exceeded",
   "service_unavailable", "timeout", "429", "503", "502"}

isRetryableError(error) ==
  \E p \in retryablePatterns : Includes(error.message, p) \/ error.code = p

\* ------------------------------------------------------------------ state

VARIABLES
  execs,        \* storage: executionId -> the Execution's steps, in order
  dbJobs,       \* storage: job id -> ReasoningJob row
  constructed,  \* ReasoningQueue.instance is set
  recov,        \* loadPendingJobs: "none", "scanning" (awaiting findMany), "done"
  jobs,         \* this.jobs
  runs,         \* bag of the processJob calls in flight (tasks the PQueue has started)
  waitq,        \* tasks the PQueue holds back, oldest first
  timers,       \* job id -> number of pending retry setTimeout callbacks
  started,      \* job id -> processJob calls started for it in this process lifetime
  enq,          \* enqueue calls in flight
  batch,        \* the enqueueExecution / processExecution call in flight
  nextJob,      \* the next id randomUUID() returns
  crashes,      \* process stops so far
  epoch,        \* nextJob when the instance was constructed
  recovered,    \* job ids loadPendingJobs submitted in this process lifetime
  reenq,        \* job ids enqueued for the pair of a failed job, storage working
  wrote,        \* job ids whose updateStepReasoning write succeeded
  atStop,       \* job id -> the attempt its object held when the process last stopped
  faulted,      \* a storage call has failed
  flaky,        \* the parts of storage whose calls may fail: "execution", "job"
  save,         \* the saveExecution call in flight and the number of calls made
  retry,        \* one call of handleJobError on a job, and the clock it read
  file,         \* the file-backed storage: its lock, its callers, executions.json
  chain,        \* one call of generateStepReasoning: its step, position and result
  trk           \* one XRay tracker and the Execution its end() returned

vars == <<execs, dbJobs, constructed, recov, jobs, runs, waitq, timers, started, enq,
          batch, nextJob, crashes, epoch, recovered, wrote, atStop, faulted,
          flaky, save, reenq, retry, file, chain, trk>>

\* The variables of the queue and of the database storage.
coreVars == <<execs, dbJobs, constructed, recov, jobs, runs, waitq, timers, started, enq,
              batch, nextJob, crashes, epoch, recovered, wrote, atStop,
              faulted, flaky, save, reenq>>

\* All the variables but those of the explanation call and of the tracker.
queueVars == <<coreVars, retry, file>>

\* The steps of an execution saved before any reasoning was generated.
FreshSteps == <<Step("s1", <<>>), Step("s2", <<>>)>>

QueueInit(f, up, steps) ==
  /\ execs = [e \in {"e1"} |-> steps]
  /\ dbJobs = [j \in JobIds |-> NoRow]
  /\ constructed = up
  /\ recov = (IF up THEN "done" ELSE "none")
  /\ jobs = [j \in JobIds |-> NoJob]
  /\ runs = EmptyBag
  /\ waitq = <<>>
  /\ timers = [j \in JobIds |-> 0]
  /\ started = [j \in JobIds |-> 0]
  /\ enq = [j \in JobIds |-> NoCall]
  /\ batch = NoBatch
  /\ nextJob = 1
  /\ crashes = 0
  /\ epoch = 1
  /\ recovered = {}
  /\ wrote = {}
  /\ reenq = {}
  /\ atStop = [j \in JobIds |-> 0]
  /\ faulted = FALSE
  /\ flaky = f
  /\ save = NoSave
  /\ retry = NoRetry
  /\ file = NoFile

\* The queue and the storage as constructed; no explanation call and no
\* tracker call has been made.
InitWith(f, up, steps) ==
  /\ QueueInit(f, up, steps)
  /\ chain = NoChain
  /\ trk = NoTracker

\* Every storage call may fail.
Init == InitWith({"execution", "job"}, FALSE, FreshSteps)

\* ------------------------------------------------------------------ memory

\* The in-process state an operation of the queue reads and writes.
Mem == [jobs |-> jobs, runs |-> runs, waitq |-> waitq, timers |-> timers,
        started |-> started]

SetMem(m) ==
  /\ jobs' = m.jobs
  /\ runs' = m.runs
  /\ waitq' = m.waitq
  /\ timers' = m.timers
  /\ started' = m.started

One(x) == SetToBag({x})

Max(a, b) == IF a >= b THEN a ELSE b

\* A pool that admits a task while concurrency tasks are running.
PoolHasRoomInclusive(rs) == BagCardinality(rs) <= Concurrency

\* PQueue: _doesConcurrentAllowAnother
PoolHasRoom(rs) == BagCardinality(rs) < Concurrency

\* PQueue: onIdle resolves when nothing is queued and nothing is running.
PoolIdle(m) == m.waitq = <<>> /\ m.runs = EmptyBag

\* processJob, up to its first await: look the job up, mark it processing.
processJobStart(m, j) ==
  IF m.jobs[j].status = "absent"
  THEN m
  ELSE [m EXCEPT
          !.jobs[j].status = "processing",
          !.started[j] = @ + 1,
          !.runs = @ (+) One([NoRun EXCEPT !.jid = j, !.pc = "markProcessing",
                                           !.att = TRUE])]

\* this.queue.add(() => this.processJob(j)): PQueue starts the task at once
\* when a slot is free and holds it back otherwise.
QueueAdd(m, j) ==
  IF PoolHasRoom(m.runs)
  THEN processJobStart(m, j)
  ELSE [m EXCEPT !.waitq = Append(@, j)]

\* The promise of a run settles: PQueue frees the slot and starts the oldest
\* task it holds back.
FinishRun(m, run) ==
  LET m1 == [m EXCEPT !.runs = @ (-) One(run)]
  IN  IF m1.waitq # <<>>
      THEN processJobStart([m1 EXCEPT !.waitq = Tail(@)], Head(m1.waitq))
      ELSE m1

\* The job object a run holds (const job = this.jobs.get(jobId)).
JobOf(m, run) == IF run.att THEN m.jobs[run.jid] ELSE run.own

\* A write to the fields of the job object a run holds.
StoreJob(m, run, job) ==
  IF run.att THEN [m EXCEPT !.jobs[run.jid] = job] ELSE m

\* The run goes on as next, its job object now being job.
Become(m, run, job, next) ==
  [StoreJob(m, run, job) EXCEPT
     !.runs = (@ (-) One(run))
                (+) One(IF run.att THEN next ELSE [next EXCEPT !.own = job])]

\* this.config.retryDelays[attempt - 1] || 8000
\* RetryDelay with the ladder indexed by job.attempt instead of job.attempt - 1.
RetryDelayFromZero(attempt) ==
  IF attempt + 1 \in 1..Len(retryDelays) /\ retryDelays[attempt + 1] # 0
  THEN retryDelays[attempt + 1]
  ELSE RetryDelayFallback

\* this.config.retryDelays[job.attempt - 1] || 8000
RetryDelay(attempt) ==
  IF attempt \in 1..Len(retryDelays) /\ retryDelays[attempt] # 0
  THEN retryDelays[attempt]
  ELSE RetryDelayFallback

\* handleJobError lines 277-282: the retry test, and the job as rescheduled
\* when Date.now() returns now.
shouldRetry(error, job, maxRetries) ==
  isRetryableError(error) /\ job.attempt < maxRetries

scheduleRetry(job, now) ==
  [job EXCEPT !.attempt = @ + 1,
              !.status = "pending",
              !.nextRetryAt = now + RetryDelay(job.attempt)]

\* handleJobError sleeping out the retry delay inside the pool task.
handleJobErrorSleeping(m, run, error) ==
  LET job == [JobOf(m, run) EXCEPT !.error = error.message]
  IN  IF shouldRetry(error, job, MaxRetries)
      THEN LET again == scheduleRetry(job, 0)
               m1 == Become(m, run, again, [run EXCEPT !.pc = "sleep"])
           IN  [m1 EXCEPT !.timers[run.jid] = @ + 1]
      ELSE Become(m, run, [job EXCEPT !.status = "failed"],
                  [run EXCEPT !.pc = "markFailed", !.error = job.error,
                              !.attempts = job.attempt])

\* handleJobError with the retry test read as attempt <= maxRetries.
handleJobErrorInclusive(m, run, error) ==
  LET job == [JobOf(m, run) EXCEPT !.error = error.message]
  IN  IF isRetryableError(error) /\ job.attempt <= MaxRetries
      THEN LET again == scheduleRetry(job, 0)
               m1 == StoreJob(m, run, again)
           IN  FinishRun([m1 EXCEPT !.timers[run.jid] = @ + 1], run)
      ELSE Become(m, run, [job EXCEPT !.status = "failed"],
                  [run EXCEPT !.pc = "markFailed", !.error = job.error,
                              !.attempts = job.attempt])

\* handleJobError, up to its await (there is none on the retry path).
handleJobError(m, run, error) ==
  LET job == [JobOf(m, run) EXCEPT !.error = error.message]
  IN  IF shouldRetry(error, job, MaxRetries)
      THEN LET again == scheduleRetry(job, 0)
               m1 == StoreJob(m, run, again)
           IN  FinishRun([m1 EXCEPT !.timers[run.jid] = @ + 1], run)
      ELSE Become(m, run, [job EXCEPT !.status = "failed"],
                  [run EXCEPT !.pc = "markFailed", !.error = job.error,
                              !.attempts = job.attempt])

\* ------------------------------------------------------------------ storage

\* prisma.execution.findUnique({ where: { executionId: id } })
Stored(id) == id \in DOMAIN execs

\* execution.steps.find(s => s.name === name): index of the first match, 0 if none.
FindStep(steps, name) ==
  IF \E i \in 1..Len(steps) : steps[i].name = name
  THEN CHOOSE i \in 1..Len(steps) :
         steps[i].name = name /\ \A k \in 1..(i - 1) : steps[k].name # name
  ELSE 0

\* llmReasoning.ts generateStepReasoning: the text for a step with none of
\* the inspected output fields; it never throws.
generateStepReasoning(step) == <<"Completed ", step.name, " step">>

\* Whether a storage call may fail now: part is "execution" for the calls on
\* the Execution and Step tables, "job" for those on the ReasoningJob table.
MayFail(part) == part \in flaky

\* prisma.reasoningJob.update({ where: { id: j }, data }) inside try/catch:
\* ok is FALSE when the call fails; a missing row makes it fail too.
RowUpdated(j, ok, row) ==
  IF ok /\ dbJobs[j].status # "absent"
  THEN [dbJobs EXCEPT ![j] = row]
  ELSE dbJobs

\* The outcomes of an update of job j's row: done, or failed (caught, logged).
RowOutcomes(j) ==
  IF MayFail("job") /\ dbJobs[j].status # "absent" THEN BOOLEAN ELSE {TRUE}

\* The outcomes of a query on the Execution table.
ExecOutcomes == IF MayFail("execution") THEN BOOLEAN ELSE {TRUE}

\* ------------------------------------------------------------------ processJob

\* The update of the row to processing outside any try/catch: its failure
\* reaches processJob's caller as a failure of the job.
MarkProcessingRethrow(run) ==
  /\ run.pc = "markProcessing"
  /\ \E ok \in RowOutcomes(run.jid) :
       /\ dbJobs' = RowUpdated(run.jid, ok,
                      [dbJobs[run.jid] EXCEPT !.status = "processing"])
       /\ faulted' = (faulted \/ ~ok)
       /\ IF ok
          THEN SetMem(Become(Mem, run, JobOf(Mem, run), [run EXCEPT !.pc = "load"]))
          ELSE SetMem(handleJobError(Mem, run, TransientErr))
  /\ UNCHANGED <<retry, file, chain, trk, reenq, save, execs, constructed, recov, enq, batch, nextJob, crashes,
                 epoch, recovered, wrote, atStop, flaky>>

\* await prisma.reasoningJob.update({ data: { status: 'processing' } })
MarkProcessing(run) ==
  /\ run.pc = "markProcessing"
  /\ \E ok \in RowOutcomes(run.jid) :
       /\ dbJobs' = RowUpdated(run.jid, ok,
                      [dbJobs[run.jid] EXCEPT !.status = "processing"])
       /\ faulted' = (faulted \/ ~ok)
  /\ SetMem(Become(Mem, run, JobOf(Mem, run), [run EXCEPT !.pc = "load"]))
  /\ UNCHANGED <<retry, file, chain, trk, reenq, save, execs, constructed, recov, enq, batch, nextJob, crashes,
                 epoch, recovered, wrote, atStop, flaky>>

\* processJob's load step without the idempotency check.
LoadExecutionNoSkip(run) ==
  /\ run.pc = "load"
  /\ LET job == JobOf(Mem, run)
     IN \E ok \in ExecOutcomes :
          /\ faulted' = (faulted \/ ~ok)
          /\ IF ~ok \/ ~Stored(job.executionId)
             THEN SetMem(handleJobError(Mem, run, ExecutionNotFound(job.executionId)))
             ELSE LET steps == execs[job.executionId]
                      i == FindStep(steps, job.stepName)
                  IN  IF i = 0
                      THEN SetMem(handleJobError(Mem, run,
                                    StepNotFound(job.stepName, job.executionId)))
                      ELSE SetMem(Become(Mem, run, job,
                                    [run EXCEPT !.pc = "chain", !.step = steps[i]]))
  /\ UNCHANGED <<retry, file, chain, trk, reenq, save, execs, dbJobs, constructed, recov, enq, batch, nextJob,
                 crashes, epoch, recovered, wrote, atStop, flaky>>

\* await getExecutionById(job.executionId), the step lookup and the
\* idempotency check. getExecutionById returns undefined when its query fails.
LoadExecution(run) ==
  /\ run.pc = "load"
  /\ LET job == JobOf(Mem, run)
     IN \E ok \in ExecOutcomes :
          /\ faulted' = (faulted \/ ~ok)
          /\ IF ~ok \/ ~Stored(job.executionId)
             THEN SetMem(handleJobError(Mem, run, ExecutionNotFound(job.executionId)))
             ELSE LET steps == execs[job.executionId]
                      i == FindStep(steps, job.stepName)
                  IN  IF i = 0
                      THEN SetMem(handleJobError(Mem, run,
                                    StepNotFound(job.stepName, job.executionId)))
                      ELSE IF steps[i].reasoning # <<>>
                      THEN SetMem(FinishRun(
                             StoreJob(Mem, run, [job EXCEPT !.status = "completed"]),
                             run))
                      ELSE SetMem(Become(Mem, run, job,
                                    [run EXCEPT !.pc = "chain", !.step = steps[i]]))
  /\ UNCHANGED <<retry, file, chain, trk, reenq, save, execs, dbJobs, constructed, recov, enq, batch, nextJob,
                 crashes, epoch, recovered, wrote, atStop, flaky>>

\* const reasoning = await generateStepReasoning(step)
Chain(run) ==
  /\ run.pc = "chain"
  /\ SetMem(Become(Mem, run, JobOf(Mem, run),
              [run EXCEPT !.pc = "find",
                          !.reasoning = generateStepReasoning(run.step)]))
  /\ UNCHANGED <<retry, file, chain, trk, reenq, save, execs, dbJobs, constructed, recov, enq, batch, nextJob,
                 crashes, epoch, recovered, wrote, atStop, faulted, flaky>>

\* updateStepReasoning's lookup after which processJob marks the job
\* completed without waiting for the step update.
WriteFindThenComplete(run) ==
  /\ run.pc = "find"
  /\ LET job == JobOf(Mem, run)
     IN \/ /\ MayFail("execution")
           /\ \E e \in StorageErrs : SetMem(handleJobError(Mem, run, e))
           /\ faulted' = TRUE
        \/ /\ faulted' = faulted
           /\ IF ~Stored(job.executionId)
              THEN SetMem(handleJobError(Mem, run, ExecutionNotFound(job.executionId)))
              ELSE IF FindStep(execs[job.executionId], job.stepName) = 0
              THEN SetMem(handleJobError(Mem, run,
                            StepNotFound(job.stepName, job.executionId)))
              ELSE SetMem(Become(Mem, run, [job EXCEPT !.status = "completed"],
                            [run EXCEPT !.pc = "markCompleted"]))
  /\ UNCHANGED <<retry, file, chain, trk, reenq, save, execs, dbJobs, constructed, recov, enq, batch, nextJob,
                 crashes, epoch, recovered, wrote, atStop, flaky>>

\* updateStepReasoning: await prisma.execution.findUnique(...) and the step
\* lookup; every error is rethrown to processJob's catch.
WriteFind(run) ==
  /\ run.pc = "find"
  /\ LET job == JobOf(Mem, run)
     IN \/ /\ MayFail("execution")
           /\ \E e \in StorageErrs : SetMem(handleJobError(Mem, run, e))
           /\ faulted' = TRUE
        \/ /\ faulted' = faulted
           /\ IF ~Stored(job.executionId)
              THEN SetMem(handleJobError(Mem, run, ExecutionNotFound(job.executionId)))
              ELSE IF FindStep(execs[job.executionId], job.stepName) = 0
              THEN SetMem(handleJobError(Mem, run,
                            StepNotFound(job.stepName, job.executionId)))
              ELSE SetMem(Become(Mem, run, job, [run EXCEPT !.pc = "update"]))
  /\ UNCHANGED <<retry, file, chain, trk, reenq, save, execs, dbJobs, constructed, recov, enq, batch, nextJob,
                 crashes, epoch, recovered, wrote, atStop, flaky>>

\* updateStepReasoning writing the step list back with only its own step
\* reasoned.
WriteUpdateWholeList(run) ==
  /\ run.pc = "update"
  /\ LET job == JobOf(Mem, run)
         i == FindStep(execs[job.executionId], job.stepName)
     IN \/ /\ MayFail("execution")
           /\ \E e \in StorageErrs : SetMem(handleJobError(Mem, run, e))
           /\ faulted' = TRUE
           /\ UNCHANGED <<retry, file, chain, trk, reenq, save, execs, wrote>>
        \/ /\ faulted' = faulted
           /\ execs' = [execs EXCEPT ![job.executionId] =
                         [k \in DOMAIN @ |->
                            Step(@[k].name,
                                 IF k = i THEN run.reasoning ELSE <<>>)]]
           /\ wrote' = wrote \cup {run.jid}
           /\ SetMem(Become(Mem, run, [job EXCEPT !.status = "completed"],
                       [run EXCEPT !.pc = "markCompleted"]))
  /\ UNCHANGED <<retry, file, chain, trk, reenq, save, dbJobs, constructed, recov, enq, batch, nextJob, crashes,
                 epoch, recovered, atStop, flaky>>

\* updateStepReasoning: await prisma.step.update({ data: { reasoning } }),
\* then processJob marks the job completed in memory.
WriteUpdate(run) ==
  /\ run.pc = "update"
  /\ LET job == JobOf(Mem, run)
         i == FindStep(execs[job.executionId], job.stepName)
     IN \/ /\ MayFail("execution")
           /\ \E e \in StorageErrs : SetMem(handleJobError(Mem, run, e))
           /\ faulted' = TRUE
           /\ UNCHANGED <<retry, file, chain, trk, reenq, save, execs, wrote>>
        \/ /\ faulted' = faulted
           /\ execs' = [execs EXCEPT ![job.executionId][i].reasoning = run.reasoning]
           /\ wrote' = wrote \cup {run.jid}
           /\ SetMem(Become(Mem, run, [job EXCEPT !.status = "completed"],
                       [run EXCEPT !.pc = "markCompleted"]))
  /\ UNCHANGED <<retry, file, chain, trk, reenq, save, dbJobs, constructed, recov, enq, batch, nextJob, crashes,
                 epoch, recovered, atStop, flaky>>

\* await prisma.reasoningJob.update({ data: { status: 'completed', reasoning } })
MarkCompleted(run) ==
  /\ run.pc = "markCompleted"
  /\ \E ok \in RowOutcomes(run.jid) :
       /\ dbJobs' = RowUpdated(run.jid, ok,
                      [dbJobs[run.jid] EXCEPT !.status = "completed",
                                              !.reasoning = run.reasoning])
       /\ faulted' = (faulted \/ ~ok)
  /\ SetMem(FinishRun(Mem, run))
  /\ UNCHANGED <<retry, file, chain, trk, reenq, save, execs, constructed, recov, enq, batch, nextJob, crashes,
                 epoch, recovered, wrote, atStop, flaky>>

\* handleJobError: await prisma.reasoningJob.update({ data: { status:
\* 'failed', error, attempts: job.attempt } })
MarkFailed(run) ==
  /\ run.pc = "markFailed"
  /\ \E ok \in RowOutcomes(run.jid) :
       /\ dbJobs' = RowUpdated(run.jid, ok,
                      [dbJobs[run.jid] EXCEPT !.status = "failed",
                                              !.error = run.error,
                                              !.attempts = run.attempts])
       /\ faulted' = (faulted \/ ~ok)
  /\ SetMem(FinishRun(Mem, run))
  /\ UNCHANGED <<retry, file, chain, trk, reenq, save, execs, constructed, recov, enq, batch, nextJob, crashes,
                 epoch, recovered, wrote, atStop, flaky>>

\* The setTimeout callback of a retry: this.queue.add(() => this.processJob(job.id))
RetryTimer(j) ==
  /\ timers[j] > 0
  /\ SetMem(QueueAdd([Mem EXCEPT !.timers[j] = @ - 1], j))
  /\ UNCHANGED <<retry, file, chain, trk, reenq, save, execs, dbJobs, constructed, recov, enq, batch, nextJob,
                 crashes, epoch, recovered, wrote, atStop, faulted, flaky>>

\* ------------------------------------------------------------------ enqueue

\* enqueue submitting the job to the pool before the durable write.
enqueueStartEager(m, j, e, s) ==
  QueueAdd([m EXCEPT !.jobs[j] = [NoJob EXCEPT !.executionId = e,
                                               !.stepName = s, !.attempt = 1,
                                               !.status = "pending"]], j)

\* enqueue(executionId, stepName), up to its first await: a fresh id, the
\* job object put in the map, prisma.execution.findUnique issued.
enqueueStart(m, j, e, s) ==
  [m EXCEPT !.jobs[j] = [NoJob EXCEPT !.executionId = e, !.stepName = s,
                                      !.attempt = 1, !.status = "pending"]]

\* The call enqueue(e, s) is made while a job of the pair is failed, the
\* step is stored without reasoning and the storage calls succeed.
AfterFailure(e, s) ==
  /\ \E a \in JobIds : /\ jobs[a].status = "failed"
                       /\ jobs[a].executionId = e
                       /\ jobs[a].stepName = s
  /\ flaky = {}
  /\ Stored(e)
  /\ FindStep(execs[e], s) # 0
  /\ execs[e][FindStep(execs[e], s)].reasoning = <<>>

Enqueue(e, s) ==
  /\ constructed
  /\ nextJob <= MaxJobs
  /\ SetMem(enqueueStart(Mem, nextJob, e, s))
  /\ enq' = [enq EXCEPT ![nextJob] =
               [NoCall EXCEPT !.pc = "find", !.executionId = e, !.stepName = s]]
  /\ nextJob' = nextJob + 1
  /\ reenq' = IF AfterFailure(e, s) THEN reenq \cup {nextJob} ELSE reenq
  /\ UNCHANGED <<retry, file, chain, trk, save, execs, dbJobs, constructed, recov, batch,
                 crashes, epoch, recovered, wrote, atStop, faulted, flaky>>

\* enqueue: await prisma.execution.findUnique({ select: { id } }). Without a
\* stored Execution, or when the query fails (caught), no row is created and
\* the job is handed to the pool.
EnqueueFind(j) ==
  /\ enq[j].pc = "find"
  /\ \E ok \in ExecOutcomes :
       /\ faulted' = (faulted \/ ~ok)
       /\ IF ok /\ Stored(enq[j].executionId)
          THEN /\ enq' = [enq EXCEPT ![j].pc = "create",
                                     ![j].dbId = DbIdOf[enq[j].executionId]]
               /\ SetMem(Mem)
          ELSE /\ enq' = [enq EXCEPT ![j] = NoCall]
               /\ SetMem(QueueAdd(Mem, j))
  /\ UNCHANGED <<retry, file, chain, trk, reenq, save, execs, dbJobs, constructed, recov, batch, nextJob, crashes,
                 epoch, recovered, wrote, atStop, flaky>>

\* migration.sql line 69: unique index on ReasoningJob(executionId, stepName)
RowExistsFor(dbId, s) ==
  \E k \in JobIds : /\ dbJobs[k].status # "absent"
                    /\ dbJobs[k].executionId = dbId
                    /\ dbJobs[k].stepName = s

\* An enqueue that lets the failure of the create reach its caller: the job
\* is handed to the pool only when the row was written.
EnqueueCreateRethrow(j) ==
  /\ enq[j].pc = "create"
  /\ \E ok \in (IF MayFail("job") THEN BOOLEAN ELSE {TRUE}) :
       /\ faulted' = (faulted \/ ~ok)
       /\ IF ok /\ ~RowExistsFor(enq[j].dbId, enq[j].stepName)
          THEN /\ dbJobs' = [dbJobs EXCEPT ![j] =
                              [NoRow EXCEPT !.executionId = enq[j].dbId,
                                            !.stepName = enq[j].stepName,
                                            !.status = "pending",
                                            !.attempts = 1]]
               /\ SetMem(QueueAdd(Mem, j))
          ELSE /\ dbJobs' = dbJobs
               /\ SetMem(Mem)
  /\ enq' = [enq EXCEPT ![j] = NoCall]
  /\ UNCHANGED <<retry, file, chain, trk, reenq, save, execs, constructed, recov, batch, nextJob, crashes, epoch,
                 recovered, wrote, atStop, flaky>>

\* enqueue: await prisma.reasoningJob.create(...) inside try/catch, then
\* this.queue.add(...) and return jobId.
EnqueueCreate(j) ==
  /\ enq[j].pc = "create"
  /\ \E ok \in (IF MayFail("job") THEN BOOLEAN ELSE {TRUE}) :
       /\ faulted' = (faulted \/ ~ok)
       /\ dbJobs' = IF ok /\ ~RowExistsFor(enq[j].dbId, enq[j].stepName)
                    THEN [dbJobs EXCEPT ![j] =
                            [NoRow EXCEPT !.executionId = enq[j].dbId,
                                          !.stepName = enq[j].stepName,
                                          !.status = "pending",
                                          !.attempts = 1]]
                    ELSE dbJobs
  /\ enq' = [enq EXCEPT ![j] = NoCall]
  /\ SetMem(QueueAdd(Mem, j))
  /\ UNCHANGED <<retry, file, chain, trk, reenq, save, execs, constructed, recov, batch, nextJob, crashes, epoch,
                 recovered, wrote, atStop, flaky>>

\* ------------------------------------------------------------------ batch calls

BatchKinds == {"enqueueExecution", "processExecution"}

\* A caller invokes enqueueExecution(e) or processExecution(e):
\* await getExecutionById(e) is issued.
BatchCall(kind, e) ==
  /\ constructed
  /\ batch.pc = "idle"
  /\ batch' = [NoBatch EXCEPT !.pc = "load", !.kind = kind, !.executionId = e,
                              !.call = 1]
  /\ UNCHANGED <<retry, file, chain, trk, reenq, save, execs, dbJobs, constructed, recov, jobs, runs, waitq, timers, started,
                 enq, nextJob, crashes, epoch, recovered, wrote, atStop,
                 faulted, flaky>>

\* The names of all steps of a loaded Execution, reasoned or not.
RECURSIVE StepsRegardless(_)
StepsRegardless(steps) ==
  IF steps = <<>> THEN <<>>
  ELSE <<Head(steps).name>> \o StepsRegardless(Tail(steps))

\* The names of the steps of a loaded Execution that have no reasoning, in order.
RECURSIVE StepsWithoutReasoning(_)
StepsWithoutReasoning(steps) ==
  IF steps = <<>> THEN <<>>
  ELSE (IF Head(steps).reasoning = <<>> THEN <<Head(steps).name>> ELSE <<>>)
         \o StepsWithoutReasoning(Tail(steps))

\* enqueueExecution: getExecutionById resolves; throws when it is undefined.
BatchLoad ==
  /\ batch.pc = "load"
  /\ \E ok \in ExecOutcomes :
       /\ faulted' = (faulted \/ ~ok)
       /\ IF ok /\ Stored(batch.executionId)
          THEN LET todo == StepsWithoutReasoning(execs[batch.executionId])
               IN batch' = [batch EXCEPT
                              !.pc = "loop", !.todo = todo,
                              !.loaded = execs[batch.executionId],
                              !.allUnset = (Len(todo) = Len(execs[batch.executionId]))]
          ELSE batch' = [batch EXCEPT !.pc = "threw"]
  /\ UNCHANGED <<retry, file, chain, trk, reenq, save, execs, dbJobs, constructed, recov, jobs, runs, waitq, timers, started,
                 enq, nextJob, crashes, epoch, recovered, wrote, atStop, flaky>>

\* The enqueue call the loop awaits, if any, has returned.
LastEnqueueReturned ==
  IF batch.cur = 0 THEN TRUE ELSE enq[batch.cur].pc = "none"

\* enqueueExecution: the loop body, const jobId = await this.enqueue(...),
\* entered once the previous enqueue has returned.
BatchEnqueue ==
  /\ batch.pc = "loop"
  /\ batch.todo # <<>>
  /\ LastEnqueueReturned
  /\ nextJob <= MaxJobs
  /\ SetMem(enqueueStart(Mem, nextJob, batch.executionId, Head(batch.todo)))
  /\ enq' = [enq EXCEPT ![nextJob] =
               [NoCall EXCEPT !.pc = "find", !.executionId = batch.executionId,
                              !.stepName = Head(batch.todo)]]
  /\ batch' = [batch EXCEPT !.todo = Tail(@), !.cur = nextJob,
                            !.jobIds = Append(@, nextJob)]
  /\ nextJob' = nextJob + 1
  /\ UNCHANGED <<retry, file, chain, trk, reenq, save, execs, dbJobs, constructed, recov, crashes, epoch, recovered,
                 wrote, atStop, faulted, flaky>>

\* The loop is over. enqueueExecution returns the job ids; processExecution
\* returns at once without job ids or with an idle pool, and otherwise
\* awaits this.queue.onIdle().
BatchLoopEnd ==
  /\ batch.pc = "loop"
  /\ batch.todo = <<>>
  /\ LastEnqueueReturned
  /\ batch' = [batch EXCEPT !.pc =
                 IF \/ batch.kind = "enqueueExecution"
                    \/ batch.jobIds = <<>>
                    \/ PoolIdle(Mem)
                 THEN "returned" ELSE "waitIdle"]
  /\ UNCHANGED <<retry, file, chain, trk, reenq, save, execs, dbJobs, constructed, recov, jobs, runs, waitq, timers, started,
                 enq, nextJob, crashes, epoch, recovered, wrote, atStop,
                 faulted, flaky>>

\* processExecution: onIdle() resolves and the call returns.
BatchIdle ==
  /\ batch.pc = "waitIdle"
  /\ PoolIdle(Mem)
  /\ batch' = [batch EXCEPT !.pc = "returned"]
  /\ UNCHANGED <<retry, file, chain, trk, reenq, save, execs, dbJobs, constructed, recov, jobs, runs, waitq, timers, started,
                 enq, nextJob, crashes, epoch, recovered, wrote, atStop,
                 faulted, flaky>>

\* The caller calls enqueueExecution a second time, on the same execution,
\* once the first call has returned or thrown.
BatchAgain ==
  /\ batch.pc \in {"returned", "threw"}
  /\ batch.kind = "enqueueExecution"
  /\ batch.call = 1
  /\ batch' = [NoBatch EXCEPT !.pc = "load", !.kind = batch.kind,
                              !.executionId = batch.executionId, !.call = 2]
  /\ UNCHANGED <<retry, file, chain, trk, reenq, save, execs, dbJobs, constructed, recov, jobs, runs, waitq, timers, started,
                 enq, nextJob, crashes, epoch, recovered, wrote, atStop,
                 faulted, flaky>>

\* ------------------------------------------------------------------ saveExecution

\* A saveExecution without the validation of the step list.
SaveExecutionUnchecked(e, steps) ==
  /\ save.pc \in {"none", "skipped", "done", "threw"}
  /\ save.n < MaxSaves
  /\ save' = [NoSave EXCEPT !.pc = "find", !.executionId = e, !.steps = steps,
                            !.n = save.n + 1]
  /\ UNCHANGED <<retry, file, chain, trk, reenq, execs, dbJobs, constructed, recov, jobs, runs, waitq,
                 timers, started, enq, batch, nextJob, crashes, epoch, recovered, wrote,
                 atStop, faulted, flaky>>

\* saveExecution(execution): the validation, then await findUnique is
\* issued. An execution without steps is skipped with a warning.
SaveExecution(e, steps) ==
  /\ save.pc \in {"none", "skipped", "done", "threw"}
  /\ save.n < MaxSaves
  /\ save' = [NoSave EXCEPT !.pc = IF steps = <<>> THEN "skipped" ELSE "find",
                            !.executionId = e, !.steps = steps,
                            !.n = save.n + 1]
  /\ UNCHANGED <<retry, file, chain, trk, reenq, execs, dbJobs, constructed, recov, jobs, runs, waitq, timers, started,
                 enq, batch, nextJob, crashes, epoch, recovered, wrote, atStop,
                 faulted, flaky>>

\* saveExecution: prisma.execution.findUnique resolves; an error is rethrown.
SaveFind ==
  /\ save.pc = "find"
  /\ \E ok \in ExecOutcomes :
       /\ faulted' = (faulted \/ ~ok)
       /\ save' = IF ok
                  THEN [save EXCEPT !.pc = "write",
                                    !.existing = Stored(save.executionId)]
                  ELSE [save EXCEPT !.pc = "threw"]
  /\ UNCHANGED <<retry, file, chain, trk, reenq, execs, dbJobs, constructed, recov, jobs, runs, waitq, timers, started,
                 enq, batch, nextJob, crashes, epoch, recovered, wrote, atStop,
                 flaky>>

\* The step rows create: execution.steps.map(...) writes, reasoning included.
StepRows(steps) == [i \in 1..Len(steps) |-> Step(steps[i].name, steps[i].reasoning)]

\* saveExecution: prisma.execution.update with steps { deleteMany, create }
\* for an existing execution, prisma.execution.create otherwise (which the
\* unique executionId rejects when the execution exists by now); errors are
\* rethrown.
SaveWrite ==
  /\ save.pc = "write"
  /\ \E ok \in ExecOutcomes :
       /\ faulted' = (faulted \/ ~ok)
       /\ IF ok /\ (save.existing <=> Stored(save.executionId))
          THEN /\ execs' = [e \in DOMAIN execs \cup {save.executionId} |->
                              IF e = save.executionId THEN StepRows(save.steps)
                              ELSE execs[e]]
               /\ save' = [save EXCEPT !.pc = "done"]
          ELSE /\ execs' = execs
               /\ save' = [save EXCEPT !.pc = "threw"]
  /\ UNCHANGED <<retry, file, chain, trk, reenq, dbJobs, constructed, recov, jobs, runs, waitq, timers, started, enq,
                 batch, nextJob, crashes, epoch, recovered, wrote, atStop,
                 flaky>>

\* ------------------------------------------------------------------ lifecycle

\* ReasoningQueue.getInstance() on first use: the constructor, then
\* loadPendingJobs() runs up to its await of prisma.reasoningJob.findMany.
GetInstance ==
  /\ ~constructed
  /\ constructed' = TRUE
  /\ recov' = "scanning"
  /\ epoch' = nextJob
  /\ recovered' = {}
  /\ UNCHANGED <<retry, file, chain, trk, reenq, save, execs, dbJobs, jobs, runs, waitq, timers, started, enq, batch, nextJob,
                 crashes, wrote, atStop, faulted, flaky>>

\* The rows findMany({ where: { status: { in: ['pending', 'processing'] } } }) returns.
PendingRows == {j \in JobIds : dbJobs[j].status \in {"pending", "processing"}}

\* The orders in which findMany (no orderBy) may return a set of rows.
Orders(S) ==
  {q \in [1..Cardinality(S) -> S] : \A a, b \in DOMAIN q : a # b => q[a] # q[b]}

RECURSIVE SumOver(_, _)
SumOver(b, S) ==
  IF S = {} THEN 0
  ELSE LET x == CHOOSE x \in S : TRUE IN b[x] + SumOver(b, S \ {x})

\* this.jobs.set(j, job) for an id the map already holds: a run that holds
\* the object the entry had keeps that object.
Detached(rs, j, old) ==
  LET keep(x) == IF x.jid = j /\ x.att
                 THEN [x EXCEPT !.att = FALSE, !.own = old] ELSE x
      S == BagToSet(rs)
  IN  [y \in {keep(x) : x \in S} |-> SumOver(rs, {x \in S : keep(x) = y})]

\* loadPendingJobs: one iteration of the for loop.
loadOne(m, j) ==
  LET job == [NoJob EXCEPT !.executionId = dbJobs[j].executionId,
                           !.stepName = dbJobs[j].stepName,
                           !.attempt = dbJobs[j].attempts,
                           !.status = "pending"]
  IN  QueueAdd([m EXCEPT !.runs = Detached(@, j, m.jobs[j]), !.jobs[j] = job], j)

RECURSIVE loadAll(_, _)
loadAll(m, q) ==
  IF q = <<>> THEN m ELSE loadAll(loadOne(m, Head(q)), Tail(q))

\* loadPendingJobs: findMany resolves (or fails, which is caught and logged)
\* and the loop over its rows runs.
RecoveryScan ==
  /\ recov = "scanning"
  /\ recov' = "done"
  /\ \/ /\ MayFail("job")
        /\ PendingRows # {}
        /\ faulted' = TRUE
        /\ SetMem(Mem)
        /\ UNCHANGED recovered
     \/ /\ faulted' = faulted
        /\ recovered' = PendingRows
        /\ \E q \in Orders(PendingRows) : SetMem(loadAll(Mem, q))
  /\ UNCHANGED <<retry, file, chain, trk, reenq, save, execs, dbJobs, constructed, enq, batch, nextJob, crashes,
                 epoch, wrote, atStop, flaky>>

\* The process stops: everything in memory is lost, storage stays.
Crash ==
  /\ constructed
  /\ crashes < MaxCrashes
  /\ crashes' = crashes + 1
  /\ constructed' = FALSE
  /\ recov' = "none"
  /\ jobs' = [j \in JobIds |-> NoJob]
  /\ runs' = EmptyBag
  /\ waitq' = <<>>
  /\ timers' = [j \in JobIds |-> 0]
  /\ started' = [j \in JobIds |-> 0]
  /\ enq' = [j \in JobIds |-> NoCall]
  /\ batch' = NoBatch
  /\ recovered' = {}
  /\ atStop' = [j \in JobIds |-> Max(atStop[j], jobs[j].attempt)]
  /\ UNCHANGED <<retry, file, chain, trk, reenq, save, execs, dbJobs, nextJob, epoch, wrote, faulted, flaky>>

\* ------------------------------------------------------------------ spec

\* The (executionId, stepName) pairs callers pass to enqueue.
EnqueueInputs ==
  {<<"e1", "s1">>, <<"e1", "s3">>, <<"e2", "s1">>, <<"e429", "s1">>}

\* The steps of the processJob calls in flight and the retry timers.
ProcessJob ==
  \/ \E run \in BagToSet(runs) : MarkProcessing(run)
  \/ \E run \in BagToSet(runs) : LoadExecution(run)
  \/ \E run \in BagToSet(runs) : Chain(run)
  \/ \E run \in BagToSet(runs) : WriteFind(run)
  \/ \E run \in BagToSet(runs) : WriteUpdate(run)
  \/ \E run \in BagToSet(runs) : MarkCompleted(run)
  \/ \E run \in BagToSet(runs) : MarkFailed(run)
  \/ \E j \in JobIds : RetryTimer(j)

\* The constructor's scan and the enqueue calls in flight.
Lifecycle ==
  \/ GetInstance
  \/ RecoveryScan
  \/ \E j \in JobIds : EnqueueFind(j)
  \/ \E j \in JobIds : EnqueueCreate(j)

\* One process lifetime: callers enqueue single steps, for stored and for
\* missing executions and steps.
Next ==
  \/ Lifecycle
  \/ \E p \in EnqueueInputs : nextJob <= CoreJobs /\ Enqueue(p[1], p[2])
  \/ ProcessJob

Spec == Init /\ [][Next]_vars

\* One process lifetime in which every awaited call returns, every retry
\* timer fires and every task the pool holds is run.
SpecLive == Spec /\ WF_vars(ProcessJob) /\ WF_vars(Lifecycle)

\* The process may stop and start again; callers enqueue a step of the
\* stored execution.
NextRestart ==
  \/ Lifecycle
  \/ Crash
  \/ nextJob <= CoreJobs /\ Enqueue("e1", "s1")
  \/ ProcessJob

SpecRestart == Init /\ [][NextRestart]_vars

\* Callers use enqueueExecution and processExecution on the stored
\* execution, next to one enqueue of its first step.
NextBatch ==
  \/ \E j \in JobIds : EnqueueFind(j)
  \/ \E j \in JobIds : EnqueueCreate(j)
  \/ nextJob <= 1 /\ Enqueue("e1", "s1")
  \/ \E k \in BatchKinds : BatchCall(k, "e1")
  \/ BatchLoad
  \/ BatchEnqueue
  \/ BatchLoopEnd
  \/ BatchIdle
  \/ ProcessJob

\* The queue is constructed and its scan of the empty job table is over;
\* the calls on the Execution and Step tables may fail.
InitBatch == InitWith({"execution"}, TRUE, FreshSteps)

SpecBatch == InitBatch /\ [][NextBatch]_vars

\* The caller calls enqueueExecution on the stored execution, and once more
\* after the call is over.
NextAgain ==
  \/ \E j \in JobIds : EnqueueFind(j)
  \/ \E j \in JobIds : EnqueueCreate(j)
  \/ BatchCall("enqueueExecution", "e1")
  \/ BatchLoad
  \/ BatchEnqueue
  \/ BatchLoopEnd
  \/ BatchAgain
  \/ ProcessJob

\* The stored execution has one step without reasoning and one saved with
\* reasoning.
InitAgainSteps == <<Step("s1", <<>>), Step("s2", <<"given">>)>>

InitAgain == InitWith({"execution"}, TRUE, InitAgainSteps)

SpecAgain == InitAgain /\ [][NextAgain]_vars

\* The step lists callers pass to saveExecution: up to two steps named s1
\* or s2, each with or without reasoning.
SaveSteps ==
  LET S == {Step(n, r) : n \in {"s1", "s2"}, r \in {<<>>, <<"fresh">>}}
  IN  {<<>>} \cup {<<a>> : a \in S} \cup {<<a, b>> : a \in S, b \in S}

\* Callers save executions: a stored one again, a new one, with and without
\* steps.
NextSave ==
  \/ \E e \in {"e1", "e2"}, steps \in SaveSteps : SaveExecution(e, steps)
  \/ SaveFind
  \/ SaveWrite

SpecSave == InitAgain /\ [][NextSave]_vars

\* The storage calls stop failing: from here on every awaited prisma call
\* resolves.
Heal ==
  /\ faulted
  /\ flaky # {}
  /\ flaky' = {}
  /\ UNCHANGED <<retry, file, chain, trk, reenq, save, execs, dbJobs, constructed, recov, jobs, runs, waitq,
                 timers, started, enq, batch, nextJob, crashes, epoch, recovered, wrote,
                 atStop, faulted>>

\* One process lifetime in which the storage fails for a while and then
\* works: callers enqueue the first step of the stored execution.
NextHeal ==
  \/ Lifecycle
  \/ Heal
  \/ nextJob <= CoreJobs /\ Enqueue("e1", "s1")
  \/ ProcessJob

SpecHeal == Init /\ [][NextHeal]_vars

\* ------------------------------------------------------------------ explanation chain

\* v == null || v === undefined
Nullish(v) == v.t \in {"undefined", "null"}

\* Boolean(v)
Truthy(v) ==
  CASE v.t = "number" -> v.n # 0
    [] v.t = "string" -> v.s # ""
    [] v.t = "text" -> v.e # <<>>
    [] v.t \in {"array", "object"} -> TRUE
    [] OTHER -> FALSE

\* a ?? b and a || b
Coalesce(a, b) == IF Nullish(a) THEN b ELSE a
Or(a, b) == IF Truthy(a) THEN a ELSE b

\* Array.prototype.join(sep) on an array of strings, as tokens.
RECURSIVE Join(_, _)
Join(e, sep) ==
  IF e = <<>> THEN <<>>
  ELSE IF Len(e) = 1 THEN <<e[1]>>
  ELSE <<e[1], sep>> \o Join(Tail(e), sep)

\* The text a template literal puts in for a value.
Text(v) ==
  CASE v.t = "number" -> <<ToString(v.n)>>
    [] v.t = "string" -> IF v.s = "" THEN <<>> ELSE <<v.s>>
    [] v.t = "text" -> v.e
    [] v.t = "array" -> Join(v.e, ",")
    [] v.t = "object" -> <<"[object Object]">>
    [] v.t = "null" -> <<"null">>
    [] OTHER -> <<"undefined">>

\* RuleBasedReasoning.ts: isNumber, asCount
isNumber(x) == x.t = "number"
asCount(value) ==
  IF isNumber(value) THEN value
  ELSE IF value.t = "array" THEN Num(Len(value.e))
  ELSE Null

\* v.length
LengthOf(v) == IF v.t = "array" THEN Num(Len(v.e)) ELSE Undef

\* RuleBasedReasoning.ts: getSelectionLabel, for a selection that has at
\* most a title of its own (no label, no nested item).
getSelectionLabel(selection) ==
  IF ~Truthy(selection) \/ selection.t \notin {"object", "array"}
  THEN <<"one item">>
  ELSE IF selection.t = "object" /\ selection.s # "" THEN <<selection.s>>
  ELSE <<"one item">>

\* Object.keys(v) for an object or an array.
ObjectKeys(v) ==
  IF v.t = "object" THEN v.e
  ELSE IF v.t = "array" THEN [i \in 1..Len(v.e) |-> ToString(i - 1)]
  ELSE <<>>

\* The property names in use that include rating, price, review, age, year
\* or score, and k.replace(/_/g, ' ') of each.
FilterKeys == {"min_rating", "max_age_years"}
Spaced(k) == IF k = "min_rating" THEN "min rating"
             ELSE IF k = "max_age_years" THEN "max age years" ELSE k

IsFilterKey(k) == k \in FilterKeys

\* What the synchronous part of a chain call comes to.
Answer(text) == [kind |-> "return", text |-> text]
Thrown == [kind |-> "throw", text |-> <<>>]
AskLlm == [kind |-> "llm", text |-> <<>>]

\* RuleBasedReasoning.ts line 131 and 133: the generic fallback.
Fallback(step) ==
  <<"Completed \"", step.name, "\" step in ">>
    \o Text(Coalesce(step.durationMs, Num(0))) \o <<"ms">>

\* RuleBasedReasoning.ts line 38: the error format.
ErrorFormat(step) ==
  <<"Step \"", step.name, "\" failed after ">>
    \o Text(Coalesce(step.durationMs, Num(0)))
    \o <<"ms with error: ">> \o Text(step.error)

\* a?.join(', ') throws for a value that is neither nullish nor an array.
JoinThrows(a) == ~Nullish(a) /\ a.t # "array"
JoinOpt(a) == IF Nullish(a) THEN Undef ELSE Txt(Join(a.e, ", "))

\* RuleBasedReasoning.ts generateStepReasoning, lines 33-128: the error
\* short-circuit and the rule tiers 1 to 8, up to the call of grokExplainStep.
RuleBasedTiers(step) ==
  LET input == step.input
      output == step.output
      I(k) == Get(input, k)
      O(k) == Get(output, k)
      \* tier 1
      total1 == Coalesce(asCount(O("total_evaluated")), asCount(O("evaluated")))
      passed1 == asCount(O("passed"))
      failed1 == asCount(O("failed"))
      filterKeys == SelectSeq(IF Nullish(I("filters_applied"))
                              THEN input.keys
                              ELSE ObjectKeys(I("filters_applied")),
                              IsFilterKey)
      filterText == IF Len(filterKeys) # 0
                    THEN Join([i \in 1..Len(filterKeys) |-> Spaced(filterKeys[i])], ", ")
                    ELSE <<"filters">>
      \* tier 2
      et == O("extracted_themes")
      kw == O("keywords")
      themes == Coalesce(Coalesce(JoinOpt(et), JoinOpt(kw)), Txt(<<"themes">>))
      seed == Coalesce(Coalesce(Coalesce(I("seed_movie"), I("product_title")),
                                I("title")), Txt(<<"input">>))
      \* tier 3
      total3 == Coalesce(Coalesce(asCount(O("total_evaluated")),
                                  asCount(O("totalEvaluated"))),
                         asCount(O("evaluated")))
      passed3 == Coalesce(asCount(O("passed")), asCount(O("accepted")))
      failed3 == Coalesce(asCount(O("failed")), asCount(O("rejected")))
      p == Coalesce(passed3, Num(total3.n - Coalesce(failed3, Num(0)).n))
      f == Coalesce(failed3, Num(total3.n - p.n))
      \* tier 4
      totalResults == Coalesce(Coalesce(asCount(O("total_results")),
                                        asCount(O("total_found"))),
                               asCount(O("total")))
      fetched == Coalesce(Coalesce(asCount(O("candidates_fetched")),
                                   asCount(O("returned"))),
                          asCount(O("candidates")))
      query == Coalesce(Coalesce(Coalesce(Coalesce(I("keyword"), I("query")),
                 IF I("themes").t = "array" THEN Txt(Join(I("themes").e, ", ")) ELSE Undef),
                 IF I("keywords").t = "array" THEN Txt(Join(I("keywords").e, ", ")) ELSE Undef),
                 Txt(<<"query">>))
      \* tier 5
      inputCandidates == Coalesce(asCount(I("candidates_count")), asCount(I("candidates")))
      outputRemaining == Coalesce(Coalesce(asCount(O("remaining")), asCount(O("filtered"))),
                                  asCount(O("passed")))
      \* tier 7
      rankedCount == Coalesce(Coalesce(asCount(O("ranked_candidates")),
                                       asCount(O("rankedItems"))), Num(1))
      \* tier 8 (input and output are objects, not arrays)
      inSize == Coalesce(asCount(I("items")), asCount(I("rows")))
      outSize == Coalesce(asCount(O("items")), asCount(O("rows")))
  IN
  IF Truthy(step.error) THEN Answer(ErrorFormat(step))
  ELSE IF step.name = "apply_filters" /\ ~Nullish(total1) /\ ~Nullish(passed1)
  THEN Answer(<<"Applied ">> \o filterText \o <<" -> ">> \o Text(passed1)
              \o <<"/">> \o Text(total1) \o <<" passed (">>
              \o Text(Coalesce(failed1, Num(total1.n - passed1.n)))
              \o <<" failed)">>)
  ELSE IF /\ step.name \in {"preference_understanding", "keyword_generation"}
          /\ (Truthy(et) \/ Truthy(kw))
  THEN IF JoinThrows(et) \/ (Nullish(et) /\ JoinThrows(kw))
       THEN Thrown
       ELSE Answer(<<"Extracted \"">> \o Text(themes) \o <<"\" from \"">>
                   \o Text(seed) \o <<"\"">>)
  ELSE IF ~Nullish(total3) /\ (~Nullish(passed3) \/ ~Nullish(failed3))
  THEN Answer(<<"Evaluated ">> \o Text(total3) \o <<" items: ">> \o Text(p)
              \o <<" passed, ">> \o Text(f) \o <<" failed">>)
  ELSE IF ~Nullish(totalResults) /\ ~Nullish(fetched)
  THEN Answer(<<"Found ">> \o Text(totalResults) \o <<" results for \"">>
              \o Text(query) \o <<"\", returned ">> \o Text(fetched))
  ELSE IF /\ ~Nullish(inputCandidates) /\ ~Nullish(outputRemaining)
          /\ inputCandidates # outputRemaining
  THEN Answer(<<"Filtered ">> \o Text(inputCandidates)
              \o <<" candidates down to ">> \o Text(outputRemaining))
  \* tier 6: the elements are strings, none has is_relevant, passed or ok
  ELSE IF O("evaluations").t = "array"
  THEN Answer(<<"Evaluated ">> \o Text(LengthOf(O("evaluations")))
              \o <<" candidates: ", "0", " accepted, ", "0", " rejected">>)
  ELSE IF Truthy(O("selection"))
  THEN Answer(<<"Selected \"">> \o getSelectionLabel(O("selection"))
              \o <<"\" as top choice from ">> \o Text(rankedCount)
              \o <<" candidate(s)">>)
  ELSE IF ~Nullish(inSize) /\ ~Nullish(outSize) /\ inSize # outSize
  THEN Answer(<<"Transformed ">> \o Text(inSize) \o <<" items into ">>
              \o Text(outSize) \o <<" items">>)
  ELSE AskLlm

\* src/src/xRay/llmReasoning.ts generateStepReasoning, the function the
\* queue imports: pattern matching on the output, no error tier, no LLM call.
\* (removed and selection are not strings here.)
llmReasoning(step) ==
  LET input == step.input
      output == step.output
      I(k) == Get(input, k)
      O(k) == Get(output, k)
      ms == Text(Or(step.durationMs, Num(0)))
      fallback == <<"Completed \"", step.name, "\" step (">> \o ms \o <<"ms)">>
      caught == <<"Completed \"", step.name, "\" (">> \o ms \o <<"ms)">>
      c1 == IF Truthy(I("min_rating"))
            THEN <<"rating >= ">> \o Text(I("min_rating")) ELSE <<>>
      c2 == IF Truthy(I("max_age_years"))
            THEN <<"age <= ">> \o Text(I("max_age_years")) \o <<"y">> ELSE <<>>
      criteria == IF c1 # <<>> /\ c2 # <<>> THEN c1 \o <<", ">> \o c2 ELSE c1 \o c2
      found == Or(Or(O("total_found"), O("candidates_fetched")), Num(0))
      themes == Or(JoinOpt(I("themes")), Txt(<<"query">>))
      accepted == Or(Or(O("confirmed_relevant"), O("confirmed_competitors")), Num(0))
      total == Or(Or(O("total_evaluated"),
                     IF Nullish(O("evaluations")) THEN Undef
                     ELSE LengthOf(O("evaluations"))),
                  Num(0))
      selected == Or(IF O("selection").t = "object" THEN Str(O("selection").s)
                     ELSE Undef,
                     Txt(<<"top item">>))
      ranked == Or(IF Nullish(O("ranked_candidates")) THEN Undef
                   ELSE LengthOf(O("ranked_candidates")),
                   Num(1))
  IN
  IF O("extracted_themes") # Undef
  THEN IF O("extracted_themes").t # "array" THEN caught
       ELSE <<"Extracted themes: \"">> \o Join(O("extracted_themes").e, ", ")
            \o <<"\" from \"">> \o Text(I("seed_movie")) \o <<"\"">>
  ELSE IF ~output.def THEN fallback
  ELSE IF O("passed") # Undef /\ O("failed") # Undef
  THEN <<"Filtered ">> \o Text(O("passed")) \o <<" items (dropped ">>
       \o Text(O("failed")) \o <<") using ">> \o criteria
  ELSE IF O("total_found") # Undef \/ O("candidates_fetched") # Undef
  THEN IF JoinThrows(I("themes")) THEN caught
       ELSE <<"Found ">> \o Text(found) \o <<" candidates matching \"">>
            \o Text(themes) \o <<"\"">>
  ELSE IF O("removed") # Undef /\ O("remaining_candidates") # Undef
  THEN IF O("removed").t = "null" THEN caught
       ELSE <<"Removed ">> \o Text(LengthOf(O("removed"))) \o <<" items (">>
            \o Text(O("remaining_candidates")) \o <<" remain)">>
  ELSE IF O("confirmed_relevant") # Undef \/ O("confirmed_competitors") # Undef
  THEN <<"Evaluated ">> \o Text(total) \o <<" items, accepted ">>
       \o Text(accepted) \o <<" as relevant">>
  ELSE IF O("selection") # Undef
  THEN IF O("selection").t = "null" THEN caught
       ELSE <<"Selected \"">> \o Text(selected) \o <<"\" from ">>
            \o Text(ranked) \o <<" ranked options">>
  ELSE fallback

\* The steps handed to the chain: names with and without a rule of their
\* own, error unset, set and set to the empty message, with and without a
\* duration, and inputs and outputs of the shapes the tiers look for.
ChainInputs ==
  {NoObject,
   Object(<< <<"filters_applied", Obj(<<"minRating">>, "")>> >>),
   Object(<< <<"min_rating", Num(4)>>, <<"candidates", Num(10)>> >>)}

ChainOutputs ==
  {NoObject,
   Object(<<>>),
   Object(<< <<"total_evaluated", Num(10)>>, <<"passed", Num(3)>>, <<"failed", Num(7)>> >>),
   Object(<< <<"passed", Num(3)>>, <<"failed", Num(7)>> >>),
   Object(<< <<"total_evaluated", Num(10)>> >>),
   Object(<< <<"keywords", Arr(<<"a", "b">>)>>, <<"total_evaluated", Num(10)>>,
             <<"passed", Num(3)>>, <<"failed", Num(7)>> >>),
   Object(<< <<"extracted_themes", Num(3)>> >>),
   Object(<< <<"keywords", Str("a")>> >>),
   Object(<< <<"total_results", Num(28)>>, <<"candidates_fetched", Num(10)>> >>),
   Object(<< <<"selection", Obj(<<"title">>, "Heat")>> >>),
   Object(<< <<"evaluations", Arr(<<"x">>)>> >>)}

ChainSteps ==
  {ChainStep(n, i, o, e, d) :
     n \in {"apply_filters", "keyword_generation", "search"},
     i \in ChainInputs, o \in ChainOutputs,
     e \in {Undef, Str("boom"), Str("")}, d \in {Undef, Num(5)}}

\* What the awaited grokExplainStep call comes to: a sentence, an empty
\* completion, or a rejection (JSON.stringify or the request failed).
GrokOutcomes == {"text", "empty", "throws"}

\* A chain whose catch does not cover the LLM call: a rejection of
\* grokExplainStep rejects generateStepReasoning.
GrokExplainUncaught ==
  /\ chain.pc = "grok"
  /\ \E res \in GrokOutcomes :
       chain' = [chain EXCEPT
                   !.pc = "done",
                   !.raised = (res = "throws"),
                   !.text = IF res = "text" THEN <<"One sentence.">>
                            ELSE IF res = "empty" THEN Fallback(chain.step)
                            ELSE <<>>]
  /\ UNCHANGED <<trk, queueVars>>

\* RuleBasedReasoning.ts generateStepReasoning is called: it returns from a
\* tier, from its catch, or awaits grokExplainStep(step).
CallRuleBased ==
  /\ chain.pc = "ready"
  /\ LET r == RuleBasedTiers(chain.step)
     IN  chain' = [chain EXCEPT
                     !.impl = "RuleBasedReasoning",
                     !.pc = IF r.kind = "llm" THEN "grok" ELSE "done",
                     !.calls = IF r.kind = "llm" THEN 1 ELSE 0,
                     !.text = IF r.kind = "return" THEN r.text
                              ELSE IF r.kind = "throw" THEN Fallback(chain.step)
                              ELSE <<>>]
  /\ UNCHANGED <<trk, queueVars>>

\* grokExplainStep settles: return llm || fallback, or the catch's fallback.
GrokExplain ==
  /\ chain.pc = "grok"
  /\ \E res \in GrokOutcomes :
       chain' = [chain EXCEPT
                   !.pc = "done",
                   !.text = IF res = "text" THEN <<"One sentence.">>
                            ELSE Fallback(chain.step)]
  /\ UNCHANGED <<trk, queueVars>>

\* src/src/xRay/llmReasoning.ts generateStepReasoning is called and returns.
CallLlmReasoning ==
  /\ chain.pc = "ready"
  /\ chain' = [chain EXCEPT !.impl = "llmReasoning", !.pc = "done",
                            !.text = llmReasoning(chain.step)]
  /\ UNCHANGED <<trk, queueVars>>

\* A step is handed to one of the two generateStepReasoning functions.
InitChain ==
  /\ QueueInit({}, FALSE, FreshSteps)
  /\ trk = NoTracker
  /\ chain \in {[NoChain EXCEPT !.pc = "ready", !.step = st] : st \in ChainSteps}

NextChain ==
  \/ CallRuleBased
  \/ GrokExplain
  \/ CallLlmReasoning

SpecChain == InitChain /\ [][NextChain]_vars

\* ------------------------------------------------------------------ tracker

\* new Date() at the next call: the clock advances with every call.
Now == trk.n + 1

\* The bookkeeping of a call: op(name) was made, found tells whether
\* activeSteps held the name.
Called(t, op, name, found) ==
  [t EXCEPT !.n = Now,
            !.last = [op |-> op, name |-> name, found |-> found, input |-> ""]]

\* An endStep that records a step also when no step of the name is active.
endStepAnyway(name, output) ==
  /\ trk.n < MaxCalls
  /\ trk' = Called([trk EXCEPT
                      !.steps = Append(@, TStep(name, trk.activeInput[name], output, "",
                                                trk.active[name], Now)),
                      !.active[name] = 0,
                      !.activeInput[name] = "",
                      !.pending = Append(@, name)],
                   "endStep", name, trk.active[name] # 0)
  /\ UNCHANGED <<chain, queueVars>>

\* An endStep that stores the step in the place of an earlier step of the
\* same name when there is one.
endStepUpsert(name, output) ==
  /\ trk.n < MaxCalls
  /\ trk' = IF trk.active[name] = 0
            THEN Called(trk, "endStep", name, FALSE)
            ELSE LET step == TStep(name, trk.activeInput[name], output, "",
                                   trk.active[name], Now)
                     old == {i \in 1..Len(trk.steps) : trk.steps[i].name = name}
                 IN  Called([trk EXCEPT
                               !.steps = IF old = {} THEN Append(@, step)
                                         ELSE [@ EXCEPT ![CHOOSE i \in old : TRUE] = step],
                               !.active[name] = 0,
                               !.activeInput[name] = "",
                               !.pending = Append(@, name)],
                            "endStep", name, TRUE)
  /\ UNCHANGED <<chain, queueVars>>

\* A startStep that keeps the record of a step that is already active.
startStepKeepFirst(name, input) ==
  /\ trk.n < MaxCalls
  /\ trk' = [Called(IF trk.active[name] # 0
                    THEN [trk EXCEPT !.dropped[name] = input]
                    ELSE [trk EXCEPT !.active[name] = Now,
                                     !.activeInput[name] = input,
                                     !.dropped[name] = ""],
                    "startStep", name, trk.active[name] # 0)
               EXCEPT !.last.input = input]
  /\ UNCHANGED <<chain, queueVars>>

\* xray.ts startStep: activeSteps.set(name, step).
startStep(name, input) ==
  /\ trk.n < MaxCalls
  /\ trk' = [Called([trk EXCEPT !.active[name] = Now,
                                !.activeInput[name] = input,
                                !.dropped[name] = trk.activeInput[name]],
                    "startStep", name, trk.active[name] # 0)
               EXCEPT !.last.input = input]
  /\ UNCHANGED <<chain, queueVars>>

\* xray.ts endStep: returns when no step of the name is active; otherwise
\* completes the step, pushes it and deletes the entry.
endStep(name, output) ==
  /\ trk.n < MaxCalls
  /\ trk' = IF trk.active[name] = 0
            THEN Called(trk, "endStep", name, FALSE)
            ELSE Called([trk EXCEPT
                           !.steps = Append(@, TStep(name, trk.activeInput[name],
                                                     output, "",
                                                     trk.active[name], Now)),
                           !.active[name] = 0,
                           !.activeInput[name] = "",
                           !.pending = Append(@, name)],
                        "endStep", name, TRUE)
  /\ UNCHANGED <<chain, queueVars>>

\* xray.ts errorStep: as endStep, with error.message instead of an output.
errorStep(name, message) ==
  /\ trk.n < MaxCalls
  /\ trk' = IF trk.active[name] = 0
            THEN Called(trk, "errorStep", name, FALSE)
            ELSE Called([trk EXCEPT
                           !.steps = Append(@, TStep(name, trk.activeInput[name],
                                                     "", message,
                                                     trk.active[name], Now)),
                           !.active[name] = 0,
                           !.activeInput[name] = "",
                           !.pending = Append(@, name)],
                        "errorStep", name, TRUE)
  /\ UNCHANGED <<chain, queueVars>>

\* xray.ts logStep: pushes a step of the given name.
logStep(name, output) ==
  /\ trk.n < MaxCalls
  /\ trk' = Called([trk EXCEPT !.steps = Append(@, TStep(name, "in", output, "", 0, 0))],
                   "logStep", name, trk.active[name] # 0)
  /\ UNCHANGED <<chain, queueVars>>

\* xray.ts end: sets endedAt and finalOutcome and returns this.execution,
\* the object the tracker goes on using.
end(finalOutcome) ==
  /\ trk.n < MaxCalls
  /\ trk' = Called([trk EXCEPT
                      !.endedAt = Now,
                      !.finalOutcome = finalOutcome,
                      !.ended = TRUE,
                      !.atEnd = IF trk.ended THEN @
                                ELSE {k \in TNames : trk.active[k] # 0},
                      !.seen = IF trk.ended THEN @
                               ELSE Snapshot(trk.steps, Now, finalOutcome)],
                   "end", "", FALSE)
  /\ UNCHANGED <<chain, queueVars>>

\* xray.ts enqueueReasoning: with XRAY_AUTO_REASONING=true, queue.enqueue
\* is called for every name in pendingReasoningSteps, in order; the list
\* is not cleared.
enqueueReasoning(auto) ==
  /\ trk.n < MaxCalls
  /\ trk' = Called([trk EXCEPT !.enqueued = IF auto THEN @ \o trk.pending ELSE @],
                   "enqueueReasoning", "", FALSE)
  /\ UNCHANGED <<chain, queueVars>>

\* What the holder of the value end() returned reads from it now: the
\* tracker's own Execution object.
Returned == Snapshot(trk.steps, trk.endedAt, trk.finalOutcome)

InitTracker ==
  /\ QueueInit({}, FALSE, FreshSteps)
  /\ chain = NoChain
  /\ trk = NoTracker

\* The calls a pipeline makes on one tracker.
NextTracker ==
  \/ \E name \in TNames, input \in TInputs : startStep(name, input)
  \/ \E name \in TNames : endStep(name, "out")
  \/ \E name \in TNames : errorStep(name, "boom")
  \/ \E name \in TNames : logStep(name, "out")
  \/ \E o \in {"ok", "late"} : end(o)
  \/ \E auto \in BOOLEAN : enqueueReasoning(auto)

SpecTracker == InitTracker /\ [][NextTracker]_vars

\* ------------------------------------------------------------------ the retry handler alone

\* handleJobError lines 270-296 on a job of its own that failed with a
\* transient error: attempt is what the job holds, maxRetries what the
\* configuration holds, now what Date.now() returns.
HandleTransient(attempt, maxRetries, now) ==
  /\ retry.pc = "none"
  /\ LET job == [NoJob EXCEPT !.executionId = "e1", !.stepName = "s1",
                              !.attempt = attempt, !.status = "processing",
                              !.error = TransientErr.message]
         base == [NoRetry EXCEPT !.attempt = attempt,
                                 !.maxRetries = maxRetries, !.now = now]
     IN  retry' = IF shouldRetry(TransientErr, job, maxRetries)
                  THEN [base EXCEPT !.pc = "scheduled",
                                    !.job = scheduleRetry(job, now),
                                    !.delay = RetryDelay(job.attempt)]
                  ELSE [base EXCEPT !.pc = "failed",
                                    !.job = [job EXCEPT !.status = "failed"]]
  /\ UNCHANGED <<coreVars, file, chain, trk>>

\* The setTimeout callback of line 289 runs.
RetryFires ==
  /\ retry.pc = "scheduled"
  /\ retry' = [retry EXCEPT !.pc = "resubmitted"]
  /\ UNCHANGED <<coreVars, file, chain, trk>>

NextBackoff ==
  \/ \E attempt \in 1..MaxAttempt, maxRetries \in 1..(MaxAttempt + 1),
        now \in 0..MaxClock : HandleTransient(attempt, maxRetries, now)
  \/ RetryFires

SpecBackoff == InitTracker /\ [][NextBackoff]_vars

\* ------------------------------------------------------------------ file-backed storage

\* A releaseLock that clears isWriting after handing the lock over.
releaseLockClearing(f) ==
  IF Len(f.writeQueue) > 0
  THEN [f EXCEPT !.writeQueue = Tail(@),
                 !.pc[Head(f.writeQueue)] = "granted",
                 !.served = Append(@, Head(f.writeQueue)),
                 !.isWriting = FALSE]
  ELSE [f EXCEPT !.isWriting = FALSE]

\* A releaseLock that resolves the newest waiter: writeQueue.pop().
releaseLockNewest(f) ==
  IF Len(f.writeQueue) > 0
  THEN [f EXCEPT !.writeQueue = SubSeq(@, 1, Len(@) - 1),
                 !.pc[f.writeQueue[Len(f.writeQueue)]] = "granted",
                 !.served = Append(@, f.writeQueue[Len(f.writeQueue)])]
  ELSE [f EXCEPT !.isWriting = FALSE]

\* acquireLock, the executor of its promise: resolve at once when the lock
\* is free, else queue the resolver.
acquireLock(f, c) ==
  IF ~f.isWriting
  THEN [f EXCEPT !.isWriting = TRUE, !.pc[c] = "granted"]
  ELSE [f EXCEPT !.writeQueue = Append(@, c), !.pc[c] = "waiting",
                 !.arrived = Append(@, c)]

\* releaseLock: resolve the oldest queued promise, or free the lock.
releaseLock(f) ==
  IF Len(f.writeQueue) > 0
  THEN [f EXCEPT !.writeQueue = Tail(@),
                 !.pc[Head(f.writeQueue)] = "granted",
                 !.served = Append(@, Head(f.writeQueue))]
  ELSE [f EXCEPT !.isWriting = FALSE]

\* A caller with no call in flight makes its next call.
MayCall(c) ==
  /\ file.pc[c] \in {"idle", "returned", "thrown"}
  /\ file.n < MaxFileCalls

\* saveExecution(execution) up to its await: the validation, then acquireLock.
FileSaveExecution(c, executionId, steps) ==
  /\ MayCall(c)
  /\ LET f == [file EXCEPT !.n = @ + 1,
                           !.call[c] = [NoFileCall EXCEPT !.op = "saveExecution",
                                                          !.executionId = executionId,
                                                          !.steps = steps]]
     IN  file' = IF executionId = "" \/ Len(steps) = 0
                 THEN [f EXCEPT !.pc[c] = "returned"]
                 ELSE acquireLock(f, c)
  /\ UNCHANGED <<coreVars, retry, chain, trk>>

\* updateStepReasoning(executionId, stepName, reasoning) up to its await.
FileUpdateStepReasoning(c, executionId, stepName, reasoning) ==
  /\ MayCall(c)
  /\ file' = acquireLock([file EXCEPT !.n = @ + 1,
                                      !.call[c] = [NoFileCall EXCEPT
                                                     !.op = "updateStepReasoning",
                                                     !.executionId = executionId,
                                                     !.stepName = stepName,
                                                     !.reasoning = reasoning]], c)
  /\ UNCHANGED <<coreVars, retry, chain, trk>>

\* After the await: the file is read inside the lock.
FileLoad(c) ==
  /\ file.pc[c] = "granted"
  /\ file' = [file EXCEPT !.pc[c] = "loaded", !.existing[c] = file.data]
  /\ UNCHANGED <<coreVars, retry, chain, trk>>

\* The executions as changed by the call: saveExecution replaces or appends
\* the execution, updateStepReasoning sets one step's reasoning.
Modified(existing, call) ==
  IF call.op = "saveExecution"
  THEN [e \in DOMAIN existing \cup {call.executionId} |->
          IF e = call.executionId THEN call.steps ELSE existing[e]]
  ELSE [existing EXCEPT ![call.executionId] =
          [i \in DOMAIN @ |-> IF @[i].name = call.stepName
                              THEN [@[i] EXCEPT !.reasoning = call.reasoning]
                              ELSE @[i]]]

\* updateStepReasoning throws before it writes: no such execution or step.
UpdateThrows(existing, call) ==
  /\ call.op = "updateStepReasoning"
  /\ \/ call.executionId \notin DOMAIN existing
     \/ \A i \in DOMAIN existing[call.executionId] :
          existing[call.executionId][i].name # call.stepName

\* The rest of the try block: modify and fs.writeFileSync, which may throw.
FileWrite(c) ==
  /\ file.pc[c] = "loaded"
  /\ \E ok \in BOOLEAN :
       LET call == file.call[c]
           threw == UpdateThrows(file.existing[c], call) \/ ~ok
       IN  file' = [file EXCEPT
                      !.pc[c] = "finally",
                      !.call[c].threw = threw,
                      !.data = IF threw THEN @
                               ELSE Modified(file.existing[c], call)]
  /\ UNCHANGED <<coreVars, retry, chain, trk>>

\* The finally block: releaseLock, then the call returns or rethrows.
FileFinally(c) ==
  /\ file.pc[c] = "finally"
  /\ file' = [releaseLock(file) EXCEPT
                !.pc[c] = IF file.call[c].threw THEN "thrown" ELSE "returned"]
  /\ UNCHANGED <<coreVars, retry, chain, trk>>

\* The continuations of the calls: each runs once its promise is resolved.
FileSections == \E c \in Callers : FileLoad(c) \/ FileWrite(c) \/ FileFinally(c)

NextFile ==
  \/ \E c \in Callers, e \in {"e1"}, steps \in {<<>>, FreshSteps} :
       FileSaveExecution(c, e, steps)
  \/ \E c \in Callers, e \in {"e1"}, s \in {"s1", "s3"} :
       FileUpdateStepReasoning(c, e, s, generateStepReasoning(Step(s, <<>>)))
  \/ \E c \in Callers : FileLoad(c)
  \/ \E c \in Callers : FileWrite(c)
  \/ \E c \in Callers : FileFinally(c)

SpecFile == InitTracker /\ [][NextFile]_vars

\* The event loop runs every continuation whose promise is resolved.
SpecFileFair == SpecFile /\ WF_vars(FileSections)

\* ------------------------------------------------------------------ claims

SamePair(a, b) ==
  /\ jobs[a].status # "absent"
  /\ jobs[b].status # "absent"
  /\ jobs[a].executionId = jobs[b].executionId
  /\ jobs[a].stepName = jobs[b].stepName

\* C1: of two jobs for the same (executionId, stepName) at most one writes
\* reasoning to the step, whatever the interleaving of their reads, chain
\* calls and writes.
C1_AtMostOneWriter ==
  \A a, b \in wrote : SamePair(a, b) => a = b

\* The transitions of a job's status and attempt that the lifecycle allows.
ForwardStep(old, new) ==
  \/ new.status = old.status /\ new.attempt = old.attempt
  \/ old.status = "pending" /\ new.status = "processing"
       /\ new.attempt = old.attempt
  \/ old.status = "processing" /\ new.status \in {"completed", "failed"}
       /\ new.attempt = old.attempt
  \/ old.status = "processing" /\ new.status = "pending"
       /\ new.attempt = old.attempt + 1

\* C2: the status getJob shows for a job id only moves pending ->
\* processing -> (completed | pending with attempt incremented | failed),
\* and a completed or failed job never changes status again.
C2_ForwardOnly ==
  [][\A j \in JobIds :
       (jobs[j].status # "absent" /\ jobs'[j].status # "absent")
         => ForwardStep(jobs[j], jobs'[j])]_vars

\* C3: a job the recovery scan resubmits never holds an attempt below the
\* one it had reached when the process stopped.
C3_AttemptPreserved ==
  \A j \in recovered : jobs[j].attempt >= atStop[j]

\* The stored Execution a job row belongs to has the row's step.
RowTargetStored(j) ==
  \E e \in DOMAIN execs :
    DbIdOf[e] = dbJobs[j].executionId /\ FindStep(execs[e], dbJobs[j].stepName) # 0

\* C4: with healthy storage a job of an earlier process life that the scan
\* recovered, and whose Execution and Step are still stored, does not end
\* failed (it loads them and ends completed).
C4_RecoveredJobCompletes ==
  ~faulted =>
    \A j \in recovered :
      (j < epoch /\ RowTargetStored(j)) => jobs[j].status # "failed"

\* C5: the scan submits exactly the jobs whose row was pending or processing
\* when the queue was constructed, and none created by enqueue afterwards
\* (the ids from epoch on). Rows of earlier jobs do not change between the
\* construction and the scan.
C5_ScanSubmitsOwedJobs ==
  [][(recov = "scanning" /\ recov' = "done" /\ faulted' = faulted)
       => recovered' = {j \in JobIds : j < epoch /\ j \in PendingRows}]_vars

\* The job's Execution is not stored, or has no step of the job's name.
TargetMissing(job) ==
  /\ job.status # "absent"
  /\ \/ ~Stored(job.executionId)
     \/ FindStep(execs[job.executionId], job.stepName) = 0

\* C6: a job whose Execution or Step is missing is never retried: its
\* attempt stays 1 and no retry timer is set for it.
C6_MissingIsFatal ==
  \A j \in JobIds :
    TargetMissing(jobs[j]) => jobs[j].attempt = 1 /\ timers[j] = 0

\* Run made a step in this transition (the scan and a stop of the process
\* change the runs without any of them stepping).
Stepped(run) ==
  /\ CopiesIn(run, runs') < CopiesIn(run, runs)
  /\ recov' = recov
  /\ constructed' = constructed

\* C7: when the storage read of a stored Execution fails in a run whose job
\* has attempt < maxRetries, the job is sent to the retry path: pending, attempt
\* incremented, a resubmission scheduled. (The first failing storage call of
\* a behaviour is the one that sets faulted.)
C7_LoadFailureRetried ==
  [][\A run \in BagToSet(runs) :
       (run.pc = "load" /\ run.att /\ Stepped(run) /\ ~faulted /\ faulted'
          /\ Stored(jobs[run.jid].executionId)
          /\ jobs[run.jid].attempt < MaxRetries)
       => /\ jobs'[run.jid].status = "pending"
          /\ jobs'[run.jid].attempt = jobs[run.jid].attempt + 1
          /\ timers'[run.jid] = timers[run.jid] + 1]_vars

\* The retry handler took the job from processing with a transient error.
TransientFailure(old, new) ==
  /\ old.status = "processing"
  /\ new.status \in {"pending", "failed"}
  /\ isRetryableError(Err(new.error, ""))

C8_Step ==
  \A j \in JobIds :
    TransientFailure(jobs[j], jobs'[j]) =>
      IF jobs[j].attempt < MaxRetries
      THEN /\ jobs'[j].status = "pending"
           /\ jobs'[j].attempt = jobs[j].attempt + 1
           /\ jobs'[j].nextRetryAt = RetryDelay(jobs[j].attempt)
           /\ timers'[j] = timers[j] + 1
      ELSE /\ jobs'[j].status = "failed"
           /\ jobs'[j].attempt = MaxRetries

C8_State ==
  \A j \in JobIds :
    /\ jobs[j].status # "absent" => jobs[j].attempt \in 1..MaxRetries
    /\ (jobs[j].status = "failed" /\ isRetryableError(Err(jobs[j].error, "")))
         => jobs[j].attempt = MaxRetries
    /\ (jobs[j].status = "pending" /\ jobs[j].error # <<>>)
         => /\ jobs[j].attempt \in 2..MaxRetries
            /\ jobs[j].nextRetryAt = RetryDelay(jobs[j].attempt - 1)

BatchJobs == {batch.jobIds[i] : i \in 1..Len(batch.jobIds)}

\* C9: when processExecution has returned, every job it enqueued is
\* completed or failed; none is processing, none pending.
C9_DrainedOnReturn ==
  (batch.kind = "processExecution" /\ batch.pc = "returned")
    => \A j \in BatchJobs : jobs[j].status \in {"completed", "failed"}

\* enqueueExecution has returned (processExecution goes on to await onIdle).
EnqueueExecutionReturned == batch.pc \in {"waitIdle", "returned"}

\* C10: for a stored Execution loaded with no step reasoned, with healthy
\* storage, once enqueueExecution has returned and the pool is idle every
\* step has reasoning and every enqueued job has a row with status completed
\* that carries the reasoning.
C10_AllReasonedAndRecorded ==
  (EnqueueExecutionReturned /\ batch.allUnset /\ ~faulted /\ PoolIdle(Mem))
    => /\ \A i \in 1..Len(execs[batch.executionId]) :
            execs[batch.executionId][i].reasoning # <<>>
       /\ \A j \in BatchJobs :
            dbJobs[j].status = "completed" /\ dbJobs[j].reasoning # <<>>

\* No processJob call of job j is in flight or held back by the pool, and
\* the enqueue call that created j has returned.
Quiescent(j) ==
  /\ \A run \in BagToSet(runs) : run.jid # j
  /\ \A i \in 1..Len(waitq) : waitq[i] # j
  /\ enq[j].pc = "none"

\* C11: while the writes to the job table succeed, a job that has a row and
\* no processing run in progress has the row's status and attempts equal to
\* its in-memory status and attempt.
C11_RowMirrorsMemory ==
  "job" \notin flaky =>
    \A j \in JobIds :
      (dbJobs[j].status # "absent" /\ jobs[j].status # "absent" /\ Quiescent(j))
        => /\ dbJobs[j].status = jobs[j].status
           /\ dbJobs[j].attempts = jobs[j].attempt

\* C12: at every moment at most one job of a given (executionId, stepName)
\* pair is pending or processing.
C12_OneLiveJobPerPair ==
  \A a, b \in JobIds :
    (/\ SamePair(a, b)
     /\ jobs[a].status \in {"pending", "processing"}
     /\ jobs[b].status \in {"pending", "processing"}) => a = b

\* The step a run at its load finds in storage already has reasoning.
LoadsReasonedStep(run) ==
  LET job == JobOf(Mem, run)
  IN  /\ Stored(job.executionId)
      /\ FindStep(execs[job.executionId], job.stepName) # 0
      /\ execs[job.executionId][FindStep(execs[job.executionId],
                                         job.stepName)].reasoning # <<>>

\* A run is past the idempotency check only with a step loaded unreasoned.
C13_State ==
  \A run \in BagToSet(runs) :
    run.pc \in {"chain", "find", "update"} => run.step.reasoning = <<>>

\* The load of a reasoned step (the read succeeding) ends the run: the job
\* is completed, no run enters the chain or the write, storage is untouched.
C13_Step ==
  \A run \in BagToSet(runs) :
    (run.pc = "load" /\ Stepped(run) /\ ~faulted' /\ LoadsReasonedStep(run))
      => /\ execs' = execs
         /\ wrote' = wrote
         /\ run.att => jobs'[run.jid].status = "completed"
         /\ \A r \in BagToSet(runs') :
              r.pc \in {"chain", "find", "update"}
                => CopiesIn(r, runs') <= CopiesIn(r, runs)

\* C13: a job that loads a step which already has reasoning becomes
\* completed without the Explanation Chain and without updateStepReasoning,
\* and the stored reasoning of the step stays as it was.
C13_IdempotentSkip == []C13_State /\ [][C13_Step]_vars

\* A job completed although it never wrote: it took the skip.
C13_Witness ==
  \E j \in JobIds :
    /\ jobs[j].status = "completed"
    /\ j \notin wrote
    /\ ~faulted
    /\ Quiescent(j)
    /\ LET i == FindStep(execs["e1"], jobs[j].stepName)
       IN jobs[j].executionId = "e1" /\ i # 0 /\ execs["e1"][i].reasoning # <<>>

Unreasoned(step) == step.reasoning = <<>>

\* The step names of the jobs the batch call has enqueued, in order.
BatchJobSteps ==
  [i \in 1..Len(batch.jobIds) |-> jobs[batch.jobIds[i]].stepName]

\* The names of the steps that had no reasoning in the execution as loaded.
UnreasonedAtLoad ==
  LET todo == SelectSeq(batch.loaded, Unreasoned)
  IN  [i \in 1..Len(todo) |-> todo[i].name]

\* C14: when enqueueExecution has returned, the jobs it enqueued are, one
\* for one and in order, the steps whose reasoning was unset in the loaded
\* Execution, all for that Execution and with distinct job ids; so a step
\* that had reasoning when a call (the first or a later one) loaded the
\* Execution gets no job from that call.
C14_OneJobPerUnreasonedStep ==
  EnqueueExecutionReturned =>
    /\ BatchJobSteps = UnreasonedAtLoad
    /\ \A i \in 1..Len(batch.jobIds) :
         /\ jobs[batch.jobIds[i]].executionId = batch.executionId
         /\ \A k \in 1..Len(batch.jobIds) :
              batch.jobIds[i] = batch.jobIds[k] => i = k

\* The first call enqueued a job for s1 alone; the second call, made after
\* that job wrote the reasoning of s1, has returned without any job.
C14_Witness ==
  /\ batch.call = 2
  /\ batch.pc = "returned"
  /\ batch.loaded[1].reasoning = generateStepReasoning(Step("s1", <<>>))
  /\ batch.jobIds = <<>>
  /\ jobs[1].stepName = "s1"
  /\ jobs[2].status = "absent"

\* The reasoning stored for the step called name among steps (<<>> if none).
ReasoningOf(steps, name) ==
  IF FindStep(steps, name) = 0 THEN <<>>
  ELSE steps[FindStep(steps, name)].reasoning

\* C15: a saveExecution that finds its executionId stored and writes keeps,
\* for every incoming step without reasoning, the reasoning that was stored
\* for the step of that name.
C15_SaveKeepsReasoning ==
  [][(save.pc = "write" /\ save'.pc = "done" /\ save.existing)
       => \A i \in 1..Len(save.steps) :
            save.steps[i].reasoning = <<>>
              => ReasoningOf(execs'[save.executionId], save.steps[i].name)
                   = ReasoningOf(execs[save.executionId], save.steps[i].name)]_vars

\* Every job that wrote finds the reasoning it generated on its step.
C16_State ==
  \A j \in wrote :
    ReasoningOf(execs[jobs[j].executionId], jobs[j].stepName)
      = generateStepReasoning(Step(jobs[j].stepName, <<>>))

\* A change of the stored executions sets the reasoning of one step that had
\* none and leaves every other step, and the step's name, as they were.
C16_Step ==
  execs' # execs =>
    /\ DOMAIN execs' = DOMAIN execs
    /\ \A e \in DOMAIN execs :
         /\ Len(execs'[e]) = Len(execs[e])
         /\ \A i, k \in 1..Len(execs[e]) :
              /\ execs'[e][i].name = execs[e][i].name
              /\ (execs'[e][i] # execs[e][i] /\ execs'[e][k] # execs[e][k])
                   => i = k
              /\ execs[e][i].reasoning # <<>>
                   => execs'[e][i].reasoning # <<>>

\* C16: with updateStepReasoning calls for sibling steps in flight together,
\* each write changes the reasoning of its own step only, so after both
\* have returned both reasonings are stored.
C16_SiblingWritesKept == []C16_State /\ [][C16_Step]_vars

\* Jobs of two different steps have both written, the second while the
\* first was still inside processJob.
C16_Witness ==
  \E a, b \in BagToSet(runs) :
    /\ a.pc = "markCompleted"
    /\ b.pc = "markCompleted"
    /\ jobs[a.jid].stepName # jobs[b.jid].stepName
    /\ {a.jid, b.jid} \subseteq wrote
    /\ \A i \in 1..Len(execs["e1"]) : execs["e1"][i].reasoning # <<>>

\* C17: at every moment at most concurrency processJob calls are in flight,
\* and at most concurrency jobs are processing.
C17_ConcurrencyBound ==
  /\ BagCardinality(runs) <= Concurrency
  /\ Cardinality({j \in JobIds : jobs[j].status = "processing"}) <= Concurrency

\* The pool is full and holds a task back.
C17_Witness ==
  /\ BagCardinality(runs) = Concurrency
  /\ waitq # <<>>

\* C18: a job waiting for its retry timer has no processJob call in flight
\* and no task held back in the pool; and the pool holds tasks back only
\* while concurrency calls are in flight, however many jobs are waiting.
C18_BackoffHoldsNoSlot ==
  /\ \A j \in JobIds :
       timers[j] > 0 => /\ \A run \in BagToSet(runs) : run.jid # j
                        /\ \A i \in 1..Len(waitq) : waitq[i] # j
  /\ waitq # <<>> => BagCardinality(runs) = Concurrency

\* One job waits for its retry while concurrency other jobs are processed.
C18_Witness ==
  \E j \in JobIds :
    /\ timers[j] > 0
    /\ jobs[j].status = "pending"
    /\ BagCardinality(runs) = Concurrency
    /\ Cardinality({run.jid : run \in BagToSet(runs)}) = Concurrency

\* The enqueue call that created job j has returned its id.
EnqueueReturned(j) == jobs[j].status # "absent" /\ enq[j].pc = "none"

\* C19: with storage available, once enqueue has returned the id of a job
\* for a stored execution, a row with that id exists in the job table
\* (written pending with attempts 1), also when the pair had a row before.
C19_RowWrittenOnReturn ==
  ~faulted =>
    \A j \in JobIds :
      (EnqueueReturned(j) /\ Stored(jobs[j].executionId))
        => dbJobs[j].status # "absent"

Submitted(j) ==
  \/ \E run \in BagToSet(runs) : run.jid = j
  \/ \E i \in 1..Len(waitq) : waitq[i] = j
  \/ timers[j] > 0

\* The enqueue call of job j returns in this step without having written a
\* row (the lookup or the create failed, or the create was rejected).
ReturnsWithoutRow(j) ==
  /\ enq[j].pc \in {"find", "create"}
  /\ enq'[j].pc = "none"
  /\ dbJobs'[j].status = "absent"

C21_Step ==
  \A j \in JobIds :
    ReturnsWithoutRow(j) =>
      /\ jobs'[j].attempt = 1
      /\ jobs'[j].status \in {"pending", "processing"}
      /\ jobs[j].status = "pending"
      /\ \/ \E run \in BagToSet(runs') : run.jid = j /\ run.att
         \/ \E i \in 1..Len(waitq') : waitq'[i] = j

C21_State ==
  \A j \in JobIds :
    (EnqueueReturned(j) /\ dbJobs[j].status = "absent"
       /\ jobs[j].status \in {"pending", "processing"}) => Submitted(j)

\* C21: when enqueue returns a job id without a row having been written, the
\* job is in memory with attempt 1, pending until that step, and a task for
\* it is handed to the pool (started or held back); afterwards such a job is
\* never pending or processing without a task, so it is processed.
C21_WriteFailureStillProcessed == []C21_State /\ [][C21_Step]_vars

\* A job of a stored execution whose create failed, which never had a row,
\* was processed to completed and its reasoning written.
C21_Witness ==
  \E j \in JobIds :
    /\ faulted
    /\ EnqueueReturned(j)
    /\ Stored(jobs[j].executionId)
    /\ dbJobs[j].status = "absent"
    /\ \A k \in JobIds : dbJobs[k].status = "absent"
    /\ jobs[j].status = "completed"
    /\ j \in wrote

\* The number of processJob calls in flight for job j, and of tasks held
\* back for it.
RunsOf(rs, j) == SumOver([run \in BagToSet(rs) |->
                            IF run.jid = j THEN CopiesIn(run, rs) ELSE 0],
                         BagToSet(rs))
HeldOf(q, j) == Cardinality({i \in 1..Len(q) : q[i] = j})

\* C22: once a job is failed, no step starts a further processJob call for
\* it, holds a further task back for it, or arms a retry timer for it.
C22_FailedIsTerminal ==
  [][\A j \in JobIds :
       jobs[j].status = "failed" =>
         /\ RunsOf(runs', j) <= RunsOf(runs, j)
         /\ HeldOf(waitq', j) <= HeldOf(waitq, j)
         /\ timers'[j] <= timers[j]]_vars

\* Nothing is left to do for job j.
Settled(j) == Quiescent(j) /\ timers[j] = 0

\* C23: a job enqueued for a pair whose earlier job is failed, while the
\* step has no reasoning and the storage works, never becomes failed, and
\* once nothing is left to do for it, it is completed and the step has
\* reasoning.
C23_ReenqueueCompletes ==
  \A b \in reenq :
    /\ jobs[b].status # "failed"
    /\ Settled(b) => /\ jobs[b].status = "completed"
                     /\ ReasoningOf(execs["e1"], "s1") # <<>>

C24_State ==
  /\ \A e \in DOMAIN execs : Len(execs[e]) > 0
  /\ (save.pc # "none" /\ save.steps = <<>>) => save.pc = "skipped"

C24_Step ==
  (save'.steps = <<>> /\ save'.pc # "none") => execs' = execs

\* C24: no stored execution has zero steps: a saveExecution call given an
\* execution without steps is skipped before any storage call, and every
\* step taken while that call is the current one leaves the stored
\* executions unchanged.
C24_EmptyExecutionNotSaved == []C24_State /\ [][C24_Step]_vars

\* A call with no steps for the stored execution was skipped after an
\* earlier call had written, and the stored steps are those of that call.
C24_Witness ==
  /\ save.pc = "skipped"
  /\ save.steps = <<>>
  /\ save.executionId = "e1"
  /\ save.n = 2
  /\ execs["e1"] # InitAgainSteps
  /\ Len(execs["e1"]) > 0

\* C25: a call of generateStepReasoning (either function) never rejects: it
\* ends with a non-empty string, which is the generic fallback when a tier
\* threw while inspecting the step and when the LLM call failed or returned
\* nothing.
C25_ChainNeverRaises ==
  /\ ~chain.raised
  /\ chain.pc = "done" =>
       /\ chain.text # <<>>
       /\ (chain.impl = "RuleBasedReasoning"
             /\ RuleBasedTiers(chain.step).kind = "throw")
            => chain.text = Fallback(chain.step)
       /\ (chain.impl = "RuleBasedReasoning" /\ chain.calls = 1)
            => chain.text \in {<<"One sentence.">>, Fallback(chain.step)}

\* The LLM tier was reached and gave no answer (it failed or returned an
\* empty completion): the call ended with the generic fallback.
C25_Witness ==
  /\ chain.pc = "done"
  /\ chain.impl = "RuleBasedReasoning"
  /\ chain.calls = 1
  /\ chain.text = Fallback(chain.step)
  /\ ~chain.raised

\* C26: for every step whose error is set, a call of generateStepReasoning
\* ends with the error format (step name, duration, error text) and makes
\* no LLM call.
C26_ErrorShortCircuit ==
  chain.step.error # Undef =>
    /\ chain.pc # "grok"
    /\ chain.pc = "done" => /\ chain.text = ErrorFormat(chain.step)
                            /\ chain.calls = 0

\* The output carries a passed and a failed count, or a total_evaluated count.
HasCounts(step) ==
  \/ /\ ~Nullish(asCount(Get(step.output, "passed")))
     /\ ~Nullish(asCount(Get(step.output, "failed")))
  \/ ~Nullish(asCount(Get(step.output, "total_evaluated")))

\* The text holds the count v (when the output has it).
Mentions(text, v) ==
  Nullish(asCount(v)) \/ \E i \in 1..Len(text) : <<text[i]>> = Text(asCount(v))

\* C27: for every step without error whose output carries passed and failed
\* counts (or total_evaluated), a call of generateStepReasoning makes no LLM
\* call and ends with a text that holds the passed count and the failed count.
C27_CountsFromRules ==
  (chain.step.error = Undef /\ HasCounts(chain.step)) =>
    /\ chain.pc # "grok"
    /\ chain.pc = "done" =>
         /\ chain.calls = 0
         /\ Mentions(chain.text, Get(chain.step.output, "passed"))
         /\ Mentions(chain.text, Get(chain.step.output, "failed"))

C28_Step ==
  (/\ trk'.n = trk.n + 1
   /\ trk'.last.op \in {"endStep", "errorStep"}
   /\ trk.active[trk'.last.name] = 0)
    => /\ trk'.steps = trk.steps
       /\ trk'.active = trk.active
       /\ ~trk'.raised

\* C28: an endStep or errorStep call for a name without an active step
\* leaves execution.steps and activeSteps as they were and does not raise.
C28_UnknownNameIsNoop == [][C28_Step]_vars

\* errorStep was just called for a name that had completed before and is
\* not active, next to an active step of the other name.
C28_Witness ==
  /\ trk.last.op = "errorStep"
  /\ ~trk.last.found
  /\ \E i \in 1..Len(trk.steps) : trk.steps[i].name = trk.last.name
  /\ \E k \in TNames : trk.active[k] # 0
  /\ ~trk.raised

\* C29: no two steps of execution.steps have the same name.
C29_StepNamesUnique ==
  \A i, k \in 1..Len(trk.steps) :
    trk.steps[i].name = trk.steps[k].name => i = k

\* C30: the Execution end() returned keeps the steps, endedAt and
\* finalOutcome it had when end() first returned, whatever calls follow.
C30_ReturnedIsSnapshot ==
  trk.ended => Returned = trk.seen

\* The step list after a step extends the one before by at most one step.
Appended ==
  /\ Len(trk'.steps) \in {Len(trk.steps), Len(trk.steps) + 1}
  /\ SubSeq(trk'.steps, 1, Len(trk.steps)) = trk.steps

C31_Step ==
  /\ Appended
  /\ (/\ trk'.n = trk.n + 1
      /\ trk'.last.op \in {"endStep", "errorStep"}
      /\ trk.active[trk'.last.name] # 0)
       => /\ Len(trk'.steps) = Len(trk.steps) + 1
          /\ trk'.steps[Len(trk'.steps)].name = trk'.last.name
          /\ trk'.steps[Len(trk'.steps)].reasoning = ""
          /\ trk'.active[trk'.last.name] = 0
          /\ \A k \in TNames \ {trk'.last.name} : trk'.active[k] = trk.active[k]

WasActiveAtEnd(st) ==
  /\ st.startedAt # 0
  /\ st.startedAt < trk.seen.endedAt
  /\ st.endedAt > trk.seen.endedAt

\* C32: a step that was active when end() was called never appears in
\* execution.steps, and enqueueReasoning hands a name that was active then
\* to the queue only for a step of that name completed otherwise.
C32_ActiveAtEndDropped ==
  trk.ended =>
    /\ \A i \in 1..Len(trk.steps) : ~WasActiveAtEnd(trk.steps[i])
    /\ \A k \in trk.atEnd :
         (\E i \in 1..Len(trk.enqueued) : trk.enqueued[i] = k)
           => \E i \in 1..Len(trk.steps) : /\ trk.steps[i].name = k
                                           /\ trk.steps[i].startedAt # 0
                                           /\ ~WasActiveAtEnd(trk.steps[i])

C33_Step ==
  trk'.n = trk.n + 1 =>
    LET op == trk'.last.op
        n == trk'.last.name
    IN  /\ op = "startStep" =>
             /\ trk'.active[n] # 0
             /\ trk'.activeInput[n] = trk'.last.input
             /\ trk'.steps = trk.steps
        /\ \A k \in TNames :
             (k # n \/ op \notin {"startStep", "endStep", "errorStep"})
               => trk'.activeInput[k] = trk.activeInput[k]
        /\ (op = "endStep" /\ trk.active[n] # 0) =>
             /\ Len(trk'.steps) = Len(trk.steps) + 1
             /\ trk'.steps[Len(trk'.steps)].name = n
             /\ trk'.steps[Len(trk'.steps)].input = trk.activeInput[n]
             /\ trk'.active[n] = 0

\* C33: the record activeSteps holds for a name is that of the latest
\* startStep of the name: a startStep puts its own input there, appending
\* nothing, whether or not the name was active; no call on another name
\* changes it; and endStep appends exactly one step, with that input, and
\* clears the entry, so the earlier record is never appended.
C33_LastStartWins == [][C33_Step]_vars

\* startStep(a, i1), startStep(a, i2), endStep(a, out): one step, input i2.
C33_Witness ==
  /\ trk.last.op = "endStep"
  /\ trk.last.found
  /\ trk.n = 3
  /\ Len(trk.steps) = 1
  /\ trk.steps[1].name = "a"
  /\ trk.steps[1].input = "i2"
  /\ trk.steps[1].startedAt = 2
  /\ trk.dropped["a"] = "i1"

\* The ladder entry the claim names for attempt a.
LadderEntry(a) ==
  IF a <= Len(retryDelays) THEN retryDelays[a] ELSE retryDelays[Len(retryDelays)]

\* C34: after a transient failure at attempt a that is retried, the delay of
\* the timer is the a-th entry of retryDelays when a is within the ladder and
\* its last entry when a is beyond it, and nextRetryAt is the time of the
\* failure plus that delay.
C34_BackoffLadder ==
  retry.pc \in {"scheduled", "resubmitted"} =>
    /\ retry.delay = LadderEntry(retry.attempt)
    /\ retry.job.nextRetryAt = retry.now + LadderEntry(retry.attempt)
    /\ retry.job.attempt = retry.attempt + 1

\* A retry at attempt 5, beyond the four entries, at a time other than 0.
C34_Witness ==
  /\ retry.pc = "scheduled"
  /\ retry.attempt = Len(retryDelays) + 1
  /\ retry.now = 2
  /\ retry.delay = 8000
  /\ retry.job.nextRetryAt = 8002

\* The reasoning storage holds for the step of job object job.
StoredReasoning(job) ==
  IF Stored(job.executionId) /\ FindStep(execs[job.executionId], job.stepName) # 0
  THEN execs[job.executionId][FindStep(execs[job.executionId], job.stepName)].reasoning
  ELSE <<>>

\* Where a run stands tells what it has done: past the load it holds its
\* job's step, which had no reasoning when it was read; past the chain it
\* holds the text generated for that step; at the update of the row to
\* completed its updateStepReasoning call has succeeded.
C35_RunOrder ==
  \A run \in BagToSet(runs) :
    /\ run.pc \in {"chain", "find", "update", "markCompleted"} =>
         /\ run.step.name = JobOf(Mem, run).stepName
         /\ run.step.reasoning = <<>>
    /\ run.pc \in {"find", "update", "markCompleted"} =>
         run.reasoning = generateStepReasoning(run.step)
    /\ run.pc = "markCompleted" =>
         /\ run.jid \in wrote
         /\ StoredReasoning(JobOf(Mem, run)) # <<>>
         /\ JobOf(Mem, run).status = "completed"

\* A job object becomes completed only in the step in which a run of it has
\* its step update succeed, or reads a step that already has reasoning; its
\* row becomes completed only by a run that is past the update.
C35_CompletedStep ==
  \A j \in JobIds :
    /\ (jobs[j].status # "completed" /\ jobs'[j].status = "completed") =>
         \E run \in BagToSet(runs) :
           /\ run.jid = j
           /\ \/ run.pc = "update" /\ j \in wrote' /\ StoredReasoning(jobs[j])' # <<>>
              \/ run.pc = "load" /\ StoredReasoning(jobs[j]) # <<>>
    /\ (dbJobs[j].status # "completed" /\ dbJobs'[j].status = "completed") =>
         \E run \in BagToSet(runs) :
           run.jid = j /\ run.pc = "markCompleted" /\ j \in wrote

\* C35: within a processing run the steps happen in the order load,
\* idempotency check, explanation, updateStepReasoning, mark completed: a job
\* is marked completed, in memory or in its row, only after its
\* updateStepReasoning call succeeded, unless the run took the idempotent skip.
C35_OrderWithinRun == []C35_RunOrder /\ [][C35_CompletedStep]_vars

\* A run whose step update has succeeded and whose row update is pending.
C35_Witness ==
  \E run \in BagToSet(runs) :
    /\ run.pc = "markCompleted"
    /\ run.att
    /\ jobs[run.jid].status = "completed"
    /\ dbJobs[run.jid].status = "processing"
    /\ StoredReasoning(jobs[run.jid]) = run.reasoning
    /\ run.reasoning # <<>>

\* C37: a job that is failed, in memory or in its row, has had no successful
\* updateStepReasoning call in any of its runs.
C37_FailedNeverWrote ==
  \A j \in JobIds :
    (jobs[j].status = "failed" \/ dbJobs[j].status = "failed") => j \notin wrote

\* A step in which run, suspended at an update of its job's row, resumes
\* although the row is as it was: the update failed.
RowUpdateFailed(run) ==
  /\ run.pc \in {"markProcessing", "markCompleted", "markFailed"}
  /\ Stepped(run)
  /\ dbJobs' = dbJobs
  /\ faulted'

\* What the claim says of such a step: the job object keeps its status (a
\* task of the same job the pool starts as the slot frees aside), attempt,
\* error and nextRetryAt, no retry timer is set, the stored steps are
\* unchanged, and a run that was marking the job processing goes on to load.
C38_Step ==
  \A run \in BagToSet(runs) :
    RowUpdateFailed(run) =>
      LET j == run.jid
          next == run.pc # "markProcessing" /\ waitq # <<>> /\ Head(waitq) = j
      IN  /\ execs' = execs
          /\ timers' = timers
          /\ wrote' = wrote
          /\ IF next
             THEN jobs'[j] = [jobs[j] EXCEPT !.status = "processing"]
             ELSE jobs'[j] = jobs[j]
          /\ run.pc = "markProcessing" =>
               [run EXCEPT !.pc = "load"] \in BagToSet(runs')

\* C38: a failed update of the job's row, when marking it processing,
\* completed or failed, is swallowed: the job is not handed to the retry
\* handler, its in-memory status stays, the stored reasoning stays.
C38_RowUpdateSwallowed == [][C38_Step]_vars

\* A run past a failed update to processing: the row still pending, the job
\* processing in memory, the run about to load the execution.
C38_Witness ==
  \E run \in BagToSet(runs) :
    /\ run.pc = "load"
    /\ run.att
    /\ faulted
    /\ dbJobs[run.jid].status = "pending"
    /\ jobs[run.jid].status = "processing"
    /\ jobs[run.jid].attempt = 1
    /\ timers[run.jid] = 0

\* The callers inside a critical section: handed the lock and not yet past
\* releaseLock.
InSection == {c \in Callers : file.pc[c] \in {"granted", "loaded", "finally"}}

\* C39: at most one saveExecution or updateStepReasoning critical section is
\* in progress at any time; the lock is held while one is, no holder is in the
\* queue, and what a holder has read is still what the file holds.
C39_OneSection ==
  /\ Cardinality(InSection) <= 1
  /\ InSection # {} => file.isWriting
  /\ \A i \in 1..Len(file.writeQueue) : file.writeQueue[i] \notin InSection
  /\ \A c \in Callers : file.pc[c] = "loaded" => file.existing[c] = file.data

\* After a holder's section threw and released, the next holder is in its
\* section, having read the file, and a third caller still waits.
C39_Witness ==
  \E c1, c2, c3 \in Callers :
    /\ file.pc[c1] = "thrown"
    /\ file.pc[c2] = "loaded"
    /\ file.pc[c3] = "waiting"
    /\ file.served = <<c2>>
    /\ file.writeQueue = <<c3>>
    /\ file.isWriting

\* The callers are handed the lock from the queue in the order they were
\* queued: those served are the first arrivals, those queued the rest.
C40_Order ==
  /\ Len(file.served) <= Len(file.arrived)
  /\ file.served = SubSeq(file.arrived, 1, Len(file.served))
  /\ file.writeQueue = SubSeq(file.arrived, Len(file.served) + 1, Len(file.arrived))

\* A release with waiters resolves the oldest of them and leaves the lock
\* taken, so a caller arriving next is queued behind the rest.
C40_Handover ==
  \A c \in Callers :
    (file.pc[c] = "finally" /\ file'.pc[c] # "finally" /\ file.writeQueue # <<>>) =>
      /\ file'.isWriting
      /\ file'.pc[Head(file.writeQueue)] = "granted"
      /\ file'.writeQueue = Tail(file.writeQueue)

\* C40: with every holder's section finishing, every caller waiting in
\* acquireLock is eventually handed the lock, in the order in which the
\* callers started waiting; a release with waiters hands the lock to the
\* oldest waiter without freeing it.
C40_FifoGrant ==
  /\ []C40_Order
  /\ [][C40_Handover]_vars
  /\ \A c \in Callers : (file.pc[c] = "waiting") ~> (file.pc[c] = "granted")

\* The first waiter has been handed the lock; the caller that released it
\* has called again and waits behind the second waiter.
C40_Witness ==
  \E c1, c2, c3 \in Callers :
    /\ c1 # c2 /\ c2 # c3 /\ c1 # c3
    /\ file.arrived = <<c2, c3, c1>>
    /\ file.served = <<c2>>
    /\ file.writeQueue = <<c3, c1>>
    /\ file.pc[c2] = "granted"
    /\ file.pc[c1] = "waiting"

\* No job has had more than maxRetries processJob calls started for it.
C36_RunBound == \A j \in JobIds : started[j] <= MaxRetries

\* C36: with every awaited call returning and every retry timer firing, each
\* job added by enqueue eventually is completed or failed, and at no time
\* have more than maxRetries processing runs been started for it.
C36_EndsWithinMaxRetries ==
  /\ \A j \in JobIds :
       (jobs[j].status \in {"pending", "processing"})
         ~> (jobs[j].status \in {"completed", "failed"})
  /\ []C36_RunBound

====
